---------------------------- MODULE Spec2Model ----------------------------
(***************************************************************************)
(* Comparison engine of DocuReview Pro (praveentn/whatchanged):            *)
(*   - utils/diff_engine.py        AdvancedDiffEngine.compare_texts        *)
(*   - services/comparison_service.py  ComparisonService                   *)
(*                                                                         *)
(* Conventions.                                                            *)
(*   Text is a sequence of one-character strings.  Python indices are      *)
(*   0-based and ranges half-open; a[i] of the source is a[i+1] here.      *)
(*   A Python float is modelled by the exact decimal or rational it        *)
(*   stands for; where the result of the code depends on the binary        *)
(*   rounding of such a value (a decimal tie in round()), every outcome    *)
(*   the floating-point build can produce is allowed.                      *)
(***************************************************************************)
EXTENDS Integers, Sequences, FiniteSets, TLC

VARIABLES
    \* AdvancedDiffEngine.compare_texts
    source,            \* the source text
    target,            \* the target text
    granularity,       \* GranularityLevel
    algorithm,         \* "syntactic" | "semantic" | "hybrid"
    result,            \* the DiffResult returned (returned = FALSE before the call)
    \* ComparisonService._calculate_change_significance_score
    intensity,         \* <<x, y>>: two change intensities
    score,             \* <<>> before the calls, then <<score of x, score of y>>
    \* ComparisonService._calculate_comparison_metrics
    dimensions,        \* the statistic of each of the four dimension results
    metrics,           \* <<>> before the call, then <<the metrics dictionary>>
    \* ComparisonService._align_chunks_semantically
    embeddings_a,      \* embed_texts(texts_a): one vector per chunk of A
    embeddings_b,      \* embed_texts(texts_b): one vector per chunk of B
    alignments,        \* <<>> before the call, then <<the alignment list>>
    \* ComparisonService over its database session
    documents,         \* table documents: id -> row
    chunks,            \* table chunks: document id -> rows ordered by chunk_ix
    comparisons,       \* table comparisons (the cache), in row order
    llm_service,       \* self.llm_service is set
    embedding_service, \* self.embedding_service is set
    response,          \* what the last compare_documents call returned
    calls,             \* number of compare_documents calls so far
    computations,      \* number of calls that computed the four dimensions
    workers,           \* worker process -> how far its compare_documents call is
    edits,             \* number of uploads, analyses and deletions so far
    \* the dimension comparisons of ComparisonService
    stream_a,          \* the chunk rows of document A, in chunk_ix order
    stream_b,          \* the chunk rows of document B, in chunk_ix order
    report,            \* <<>> before the call, then <<the dimension results>>
    \* the analyze endpoint and its background task (routers/documents.py)
    status,            \* column status of table documents: id -> status
    background_tasks,  \* the scheduled _analyze_document_background calls
    answer,            \* the message of the last analyze request's response
    \* RollingChunker.chunk_text
    full_text,         \* the argument text of chunk_text
    chunk_size,        \* self.chunk_size
    overlap,           \* self.overlap
    preserve_boundaries, \* self.preserve_boundaries
    start_pos,         \* start_pos at the loop head
    chunk_index,       \* chunk_index at the loop head
    emitted,           \* the list chunks built so far
    chunking           \* "idle" before the call, "loop" at the loop head, then "returned"

diff_vars == <<source, target, granularity, algorithm, result>>
score_vars == <<intensity, score>>
metric_vars == <<dimensions, metrics>>
align_vars == <<embeddings_a, embeddings_b, alignments>>
service_vars == <<documents, chunks, comparisons, llm_service, embedding_service,
                  response, calls, computations, workers, edits>>
dimension_vars == <<stream_a, stream_b, report>>
analysis_vars == <<status, background_tasks, answer>>
chunker_vars == <<full_text, chunk_size, overlap, preserve_boundaries, start_pos,
                  chunk_index, emitted, chunking>>
vars == <<diff_vars, score_vars, metric_vars, align_vars, service_vars, dimension_vars,
          analysis_vars, chunker_vars>>

(***************************************************************************)
(* Bounds of the model                                                     *)
(***************************************************************************)
MaxUnits == 3      \* longest token sequence given to compare_texts
MaxTextLen == 3    \* longest raw text (in characters) compared with itself
MaxChunks == 3     \* most chunks on either side given to the aligner
MaxCalls == 3      \* compare_documents calls in one behaviour
MaxWorkers == 2    \* worker processes serving compare_documents at once
MaxEdits == 3      \* uploads, analyses and deletions in one behaviour
MaxChunkText == 5  \* longest text (in characters) given to chunk_text
MaxChunkSize == 2  \* largest chunk_size of a RollingChunker
MaxOverlap == 1    \* largest overlap of a RollingChunker

(***************************************************************************)
(* Generic helpers                                                         *)
(***************************************************************************)
Max2(x, y) == IF x >= y THEN x ELSE y
Min2(x, y) == IF x <= y THEN x ELSE y
SetMax(S) == CHOOSE x \in S : \A y \in S : y <= x
SetMin(S) == CHOOSE x \in S : \A y \in S : x <= y

\* Python slice s[lo:hi] with 0 <= lo <= hi <= len(s)
Slice(s, lo, hi) == SubSeq(s, lo + 1, hi)


RECURSIVE SumSeq(_)
SumSeq(s) == IF s = <<>> THEN 0 ELSE Head(s) + SumSeq(Tail(s))

SeqsUpTo(S, n) == UNION {[1..k -> S] : k \in 0..n}

\* Rationals as <<numerator, denominator>>, denominator > 0
RatLess(p, q) == p[1] * q[2] < q[1] * p[2]
RatEq(p, q) == p[1] * q[2] = q[1] * p[2]
RatMax(p, q) == IF RatLess(p, q) THEN q ELSE p
RatMin(p, q) == IF RatLess(q, p) THEN q ELSE p

(***************************************************************************)
(* Characters and str methods                                              *)
(***************************************************************************)
Letters == {"a", "A", "b"}
Whitespace == {" ", "\n"}
Chars == Letters \cup Whitespace \cup {"."}

LowerChar(c) == IF c = "A" THEN "a" ELSE c
Lower(s) == [i \in 1..Len(s) |-> LowerChar(s[i])]

RECURSIVE LStrip(_)
LStrip(s) == IF s # <<>> /\ Head(s) \in Whitespace THEN LStrip(Tail(s)) ELSE s
RECURSIVE RStrip(_)
RStrip(s) ==
    IF s # <<>> /\ s[Len(s)] \in Whitespace THEN RStrip(SubSeq(s, 1, Len(s) - 1)) ELSE s
Strip(s) == RStrip(LStrip(s))

\* str.split() and re.findall(r'\S+'): the maximal runs of non-whitespace
RECURSIVE SplitWs(_, _)
SplitWs(s, cur) ==
    IF s = <<>> THEN (IF cur = <<>> THEN <<>> ELSE <<cur>>)
    ELSE IF Head(s) \in Whitespace
         THEN (IF cur = <<>> THEN <<>> ELSE <<cur>>) \o SplitWs(Tail(s), <<>>)
         ELSE SplitWs(Tail(s), Append(cur, Head(s)))
Split(s) == SplitWs(s, <<>>)

\* ' '.join(units)
RECURSIVE Join(_)
Join(units) ==
    IF units = <<>> THEN <<>>
    ELSE IF Len(units) = 1 THEN Head(units)
    ELSE Head(units) \o <<" ">> \o Join(Tail(units))


(***************************************************************************)
(* Tokenizer: AdvancedDiffEngine._tokenize_text                            *)
(***************************************************************************)
RECURSIVE CountLeading(_, _)
CountLeading(s, S) ==
    IF s # <<>> /\ Head(s) \in S THEN 1 + CountLeading(Tail(s), S) ELSE 0

Drop(s, n) == SubSeq(s, n + 1, Len(s))

\* re.split(r'[.!?]+\s+', text): a separator is a maximal run of sentence
\* punctuation directly followed by a maximal run of whitespace
RECURSIVE ReSplitSentence(_, _)
ReSplitSentence(s, cur) ==
    IF s = <<>> THEN <<cur>>
    ELSE IF Head(s) = "."
         THEN LET d == CountLeading(s, {"."})
                  w == CountLeading(Drop(s, d), Whitespace)
              IN  IF w > 0
                  THEN <<cur>> \o ReSplitSentence(Drop(s, d + w), <<>>)
                  ELSE ReSplitSentence(Drop(s, d), cur \o SubSeq(s, 1, d))
         ELSE ReSplitSentence(Tail(s), Append(cur, Head(s)))

\* text.split('\n\n')
RECURSIVE SplitBlankLine(_, _)
SplitBlankLine(s, cur) ==
    IF s = <<>> THEN <<cur>>
    ELSE IF Len(s) >= 2 /\ s[1] = "\n" /\ s[2] = "\n"
         THEN <<cur>> \o SplitBlankLine(Drop(s, 2), <<>>)
         ELSE SplitBlankLine(Tail(s), Append(cur, Head(s)))

\* [x.strip() for x in parts if x.strip()]
RECURSIVE StripNonEmpty(_)
StripNonEmpty(parts) ==
    IF parts = <<>> THEN <<>>
    ELSE LET x == Strip(Head(parts))
         IN  (IF x = <<>> THEN <<>> ELSE <<x>>) \o StripNonEmpty(Tail(parts))

Granularities == {"character", "word", "sentence", "paragraph"}

_tokenize_text(text, g) ==
    CASE g = "character" -> [i \in 1..Len(text) |-> <<text[i]>>]
      [] g = "word"      -> Split(text)
      [] g = "sentence"  -> StripNonEmpty(ReSplitSentence(text, <<>>))
      [] g = "paragraph" -> StripNonEmpty(SplitBlankLine(text, <<>>))
      [] OTHER           -> Split(text)

(***************************************************************************)
(* difflib.SequenceMatcher(None, a, b), as the diff engine uses it.        *)
(* No junk predicate is given, and the "popular element" heuristic of      *)
(* autojunk only sets in for sequences of 200 elements or more.            *)
(***************************************************************************)
RECURSIVE MatchLen(_, _, _, _, _, _)
MatchLen(a, b, i, j, ahi, bhi) ==
    IF i < ahi /\ j < bhi /\ a[i + 1] = b[j + 1]
    THEN 1 + MatchLen(a, b, i + 1, j + 1, ahi, bhi)
    ELSE 0

\* find_longest_match: the longest common block of a[alo:ahi] and b[blo:bhi];
\* of the longest, the one starting earliest in a, then earliest in b
FindLongestMatch(a, b, alo, ahi, blo, bhi) ==
    LET cand == (alo..(ahi - 1)) \X (blo..(bhi - 1))
        len[p \in cand] == MatchLen(a, b, p[1], p[2], ahi, bhi)
        k == IF cand = {} THEN 0 ELSE SetMax({len[p] : p \in cand})
    IN  IF k = 0 THEN <<alo, blo, 0>>
        ELSE LET besti == SetMin({p[1] : p \in {q \in cand : len[q] = k}})
                 bestj == SetMin({p[2] : p \in {q \in cand : q[1] = besti /\ len[q] = k}})
             IN  <<besti, bestj, k>>

\* one round of the queue of get_matching_blocks: the blocks left of the
\* longest match x, x itself, the blocks right of it
RECURSIVE MatchQueue(_, _, _, _, _, _)
MatchAround(a, b, alo, ahi, blo, bhi, x) ==
    IF x[3] = 0 THEN <<>>
    ELSE (IF alo < x[1] /\ blo < x[2] THEN MatchQueue(a, b, alo, x[1], blo, x[2]) ELSE <<>>)
         \o <<x>>
         \o (IF x[1] + x[3] < ahi /\ x[2] + x[3] < bhi
             THEN MatchQueue(a, b, x[1] + x[3], ahi, x[2] + x[3], bhi) ELSE <<>>)

\* get_matching_blocks, before the adjacent blocks are collapsed
MatchQueue(a, b, alo, ahi, blo, bhi) ==
    MatchAround(a, b, alo, ahi, blo, bhi, FindLongestMatch(a, b, alo, ahi, blo, bhi))

\* the collapse of adjacent blocks: (i1,j1,k1) directly followed by (i2,j2,k2)
RECURSIVE Collapse(_, _)
Collapse(blocks, cur) ==
    IF blocks = <<>> THEN (IF cur[3] > 0 THEN <<cur>> ELSE <<>>)
    ELSE LET n == Head(blocks)
         IN  IF cur[1] + cur[3] = n[1] /\ cur[2] + cur[3] = n[2]
             THEN Collapse(Tail(blocks), <<cur[1], cur[2], cur[3] + n[3]>>)
             ELSE (IF cur[3] > 0 THEN <<cur>> ELSE <<>>) \o Collapse(Tail(blocks), n)

get_matching_blocks(a, b) ==
    Collapse(MatchQueue(a, b, 0, Len(a), 0, Len(b)), <<0, 0, 0>>)
        \o << <<Len(a), Len(b), 0>> >>

\* get_opcodes: <<tag, i1, i2, j1, j2>>
RECURSIVE OpcodesFrom(_, _, _)
OpcodesFrom(blocks, i, j) ==
    IF blocks = <<>> THEN <<>>
    ELSE LET ai == Head(blocks)[1]
             bj == Head(blocks)[2]
             size == Head(blocks)[3]
             tag == IF i < ai /\ j < bj THEN "replace"
                    ELSE IF i < ai THEN "delete"
                    ELSE IF j < bj THEN "insert"
                    ELSE ""
         IN  (IF tag # "" THEN << <<tag, i, ai, j, bj>> >> ELSE <<>>)
             \o (IF size > 0 THEN << <<"equal", ai, ai + size, bj, bj + size>> >> ELSE <<>>)
             \o OpcodesFrom(Tail(blocks), ai + size, bj + size)

get_opcodes(a, b) == OpcodesFrom(get_matching_blocks(a, b), 0, 0)

\* ratio() = 2.0 * matches / (len(a) + len(b)), 1.0 for two empty sequences
ratio(a, b) ==
    LET blocks == get_matching_blocks(a, b)
        matches == SumSeq([n \in 1..Len(blocks) |-> blocks[n][3]])
    IN  IF Len(a) + Len(b) = 0 THEN <<1, 1>> ELSE <<2 * matches, Len(a) + Len(b)>>

(***************************************************************************)
(* AdvancedDiffEngine (utils/diff_engine.py)                               *)
(***************************************************************************)
Algorithms == {"syntactic", "semantic", "hybrid"}

One == <<1, 1>>
semantic_threshold == <<7, 10>>          \* self.semantic_threshold = 0.7
move_detection_threshold == <<9, 10>>    \* self.move_detection_threshold = 0.9

\* DiffOperation (the metadata dictionary is not modelled)
DiffOperation(op, ss, se, ts, te, sc, tc, conf) ==
    [operation |-> op, source_start |-> ss, source_end |-> se,
     target_start |-> ts, target_end |-> te,
     source_content |-> sc, target_content |-> tc, confidence |-> conf]

Range(s) == {s[n] : n \in 1..Len(s)}

\* a variant of _calculate_semantic_similarity without the exact-match
\* shortcut of its first line: equal texts rate as a case-insensitive match
SimilarityWithoutExactMatch(text1, text2) ==
    IF Lower(text1) = Lower(text2) THEN <<98, 100>>
    ELSE <<0, 1>>

\* _calculate_semantic_similarity, a rational in [0, 1]
_calculate_semantic_similarity(text1, text2) ==
    IF text1 = text2 THEN One
    ELSE IF Lower(text1) = Lower(text2) THEN <<98, 100>>
    ELSE LET words1 == Range(Split(Lower(text1)))
             words2 == Range(Split(Lower(text2)))
             intersection == Cardinality(words1 \cap words2)
             union == Cardinality(words1 \cup words2)
             jaccard == <<intersection, Max2(union, 1)>>
             char_similarity == ratio(Lower(text1), Lower(text2))
         IN  IF words1 = {} /\ words2 = {} THEN One
             ELSE RatMax(jaccard, <<char_similarity[1] * 8, char_similarity[2] * 10>>)

OperationType(tag) ==
    CASE tag = "insert"  -> "add"
      [] tag = "delete"  -> "delete"
      [] tag = "replace" -> "replace"
      [] OTHER           -> "replace"

\* _syntactic_diff: one operation per non-equal opcode
_syntactic_diff(source_units, target_units) ==
    LET opcodes == get_opcodes(source_units, target_units)
        changed == SelectSeq(opcodes, LAMBDA c : c[1] # "equal")
    IN  [n \in 1..Len(changed) |->
            LET c == changed[n]
            IN  DiffOperation(OperationType(c[1]), c[2], c[3], c[4], c[5],
                              Slice(source_units, c[2], c[3]),
                              Slice(target_units, c[4], c[5]), One)]

\* if similarity > best_similarity and similarity > threshold: the new
\* <<best index, best_similarity>>
BetterMatch(best, index, similarity, threshold) ==
    IF RatLess(best[2], similarity) /\ RatLess(threshold, similarity)
    THEN <<index, similarity>>
    ELSE best

\* a variant of the inner loop of _semantic_diff that does not skip the
\* target units already matched
RECURSIVE BestTargetIgnoringUsed(_, _, _, _, _)
BestTargetIgnoringUsed(source_unit, target_units, used_target, j, best) ==
    IF j >= Len(target_units) THEN best
    ELSE BestTargetIgnoringUsed(source_unit, target_units, used_target, j + 1,
             BetterMatch(best, j,
                 _calculate_semantic_similarity(source_unit, target_units[j + 1]),
                 semantic_threshold))

\* the inner loop of _semantic_diff over the target units, from index j on:
\* <<best_match_j, best_similarity>>
RECURSIVE BestTarget(_, _, _, _, _)
BestTarget(source_unit, target_units, used_target, j, best) ==
    IF j >= Len(target_units) THEN best
    ELSE BestTarget(source_unit, target_units, used_target, j + 1,
             IF j \in used_target THEN best
             ELSE BetterMatch(best, j,
                      _calculate_semantic_similarity(source_unit, target_units[j + 1]),
                      semantic_threshold))

\* the body of the outer loop of _semantic_diff for source index i, given the
\* best match found: [ops |-> operations, used |-> used_target] after it
SemanticStep(acc, i, source_unit, target_units, best) ==
    IF best[1] >= 0
    THEN [ops |-> IF RatLess(best[2], One)
                  THEN Append(acc.ops,
                           DiffOperation("replace", i, i + 1, best[1], best[1] + 1,
                               <<source_unit>>, <<target_units[best[1] + 1]>>, best[2]))
                  ELSE acc.ops,
          used |-> acc.used \cup {best[1]}]
    ELSE [ops |-> Append(acc.ops,
                      DiffOperation("delete", i, i + 1, i, i, <<source_unit>>, <<>>, One)),
          used |-> acc.used]

\* the outer loop of _semantic_diff from source index i on
RECURSIVE SemanticLoop(_, _, _, _)
SemanticLoop(source_units, target_units, i, acc) ==
    IF i >= Len(source_units) THEN acc
    ELSE SemanticLoop(source_units, target_units, i + 1,
             SemanticStep(acc, i, source_units[i + 1], target_units,
                 BestTarget(source_units[i + 1], target_units, acc.used, 0, <<-1, <<0, 1>>>>)))

\* _semantic_diff: greedy matching of units, then the unmatched targets as adds
_semantic_diff(source_units, target_units) ==
    LET matched == SemanticLoop(source_units, target_units, 0, [ops |-> <<>>, used |-> {}])
        unmatched == SelectSeq([n \in 1..Len(target_units) |-> n - 1],
                               LAMBDA j : j \notin matched.used)
    IN  matched.ops \o
        [n \in 1..Len(unmatched) |->
            LET j == unmatched[n]
            IN  DiffOperation("add", j, j, j, j + 1, <<>>, <<target_units[j + 1]>>, One)]

\* the inner loop of _detect_moves over the adds, from index i on:
\* <<best_add_idx, best_similarity>>
RECURSIVE BestAdd(_, _, _, _, _)
BestAdd(delete_op, adds, used_adds, i, best) ==
    IF i >= Len(adds) THEN best
    ELSE BestAdd(delete_op, adds, used_adds, i + 1,
             IF i \in used_adds
                \/ delete_op.source_content = <<>>
                \/ adds[i + 1].target_content = <<>>
             THEN best
             ELSE BetterMatch(best, i,
                      _calculate_semantic_similarity(Join(delete_op.source_content),
                                                     Join(adds[i + 1].target_content)),
                      move_detection_threshold))

\* a variant of the loop body of _detect_moves that leaves the confidence of
\* a move at the default 1.0
MoveStepDefaultConfidence(acc, delete_op, adds, best) ==
    IF best[1] >= 0
    THEN [ops |-> Append(acc.ops,
                      DiffOperation("move", delete_op.source_start, delete_op.source_end,
                          adds[best[1] + 1].target_start, adds[best[1] + 1].target_end,
                          delete_op.source_content, adds[best[1] + 1].target_content,
                          One)),
          used |-> acc.used \cup {best[1]}]
    ELSE [ops |-> Append(acc.ops, delete_op), used |-> acc.used]

\* the body of the loop of _detect_moves for one delete, given the best add
\* found: [ops |-> enhanced_ops, used |-> used_adds] after it
MoveStep(acc, delete_op, adds, best) ==
    IF best[1] >= 0
    THEN [ops |-> Append(acc.ops,
                      DiffOperation("move", delete_op.source_start, delete_op.source_end,
                          adds[best[1] + 1].target_start, adds[best[1] + 1].target_end,
                          delete_op.source_content, adds[best[1] + 1].target_content,
                          best[2])),
          used |-> acc.used \cup {best[1]}]
    ELSE [ops |-> Append(acc.ops, delete_op), used |-> acc.used]

\* the loop of _detect_moves over the deletes, from index d on
RECURSIVE MoveLoop(_, _, _, _)
MoveLoop(deletes, adds, d, acc) ==
    IF d >= Len(deletes) THEN acc
    ELSE MoveLoop(deletes, adds, d + 1,
             MoveStep(acc, deletes[d + 1], adds,
                 BestAdd(deletes[d + 1], adds, acc.used, 0, <<-1, <<0, 1>>>>)))

\* _detect_moves: the other operations, then each delete (or the move it became),
\* then the adds no move consumed
_detect_moves(operations) ==
    LET deletes == SelectSeq(operations, LAMBDA op : op.operation = "delete")
        adds == SelectSeq(operations, LAMBDA op : op.operation = "add")
        others == SelectSeq(operations, LAMBDA op : op.operation \notin {"delete", "add"})
        matched == MoveLoop(deletes, adds, 0, [ops |-> others, used |-> {}])
        left == SelectSeq([n \in 1..Len(adds) |-> n - 1], LAMBDA i : i \notin matched.used)
    IN  matched.ops \o [n \in 1..Len(left) |-> adds[left[n] + 1]]

\* the confidence _hybrid_diff gives a one-for-one replacement
HybridEnhance(op) ==
    IF op.operation = "replace"
       /\ Len(op.source_content) = 1 /\ Len(op.target_content) = 1
    THEN LET similarity ==
                 _calculate_semantic_similarity(op.source_content[1], op.target_content[1])
         IN  IF RatLess(semantic_threshold, similarity)
             THEN [op EXCEPT !.confidence = similarity]
             ELSE op
    ELSE op

\* _hybrid_diff
_hybrid_diff(source_units, target_units) ==
    LET syntactic_ops == _syntactic_diff(source_units, target_units)
    IN  _detect_moves([n \in 1..Len(syntactic_ops) |-> HybridEnhance(syntactic_ops[n])])

\* operations.sort(key=lambda op: (op.source_start, op.target_start)), stable
KeyLeq(x, y) ==
    \/ x.source_start < y.source_start
    \/ x.source_start = y.source_start /\ x.target_start <= y.target_start

RECURSIVE InsertSorted(_, _)
InsertSorted(sorted, op) ==
    IF sorted = <<>> THEN <<op>>
    ELSE IF KeyLeq(Head(sorted), op)
         THEN <<Head(sorted)>> \o InsertSorted(Tail(sorted), op)
         ELSE <<op>> \o sorted

RECURSIVE SortOps(_, _)
SortOps(ops, sorted) ==
    IF ops = <<>> THEN sorted ELSE SortOps(Tail(ops), InsertSorted(sorted, Head(ops)))

\* the merge loop of _post_process_operations
RECURSIVE MergeLoop(_, _)
MergeLoop(current_op, rest) ==
    IF rest = <<>> THEN <<current_op>>
    ELSE LET next_op == Head(rest)
         IN  IF current_op.operation = next_op.operation
                /\ current_op.source_end = next_op.source_start
                /\ current_op.target_end = next_op.target_start
             THEN MergeLoop(
                      DiffOperation(current_op.operation,
                          current_op.source_start, next_op.source_end,
                          current_op.target_start, next_op.target_end,
                          current_op.source_content \o next_op.source_content,
                          current_op.target_content \o next_op.target_content,
                          RatMin(current_op.confidence, next_op.confidence)),
                      Tail(rest))
             ELSE <<current_op>> \o MergeLoop(next_op, Tail(rest))

\* _post_process_operations
_post_process_operations(operations) ==
    IF operations = <<>> THEN operations
    ELSE LET sorted == SortOps(operations, <<>>)
         IN  MergeLoop(Head(sorted), Tail(sorted))

\* a variant of _calculate_similarity that also counts the move operations
SimilarityCountingMoves(operations, source_len, target_len) ==
    IF source_len = 0 /\ target_len = 0 THEN One
    ELSE LET total_units == Max2(source_len, target_len)
             counted == SelectSeq(operations,
                            LAMBDA op : op.operation \in {"add", "delete", "replace", "move"})
             changed_units ==
                 SumSeq([n \in 1..Len(counted) |->
                            Max2(Len(counted[n].source_content),
                                 Len(counted[n].target_content))])
         IN  <<Max2(0, Max2(total_units, 1) - changed_units), Max2(total_units, 1)>>

\* _calculate_similarity, a rational in [0, 1]
_calculate_similarity(operations, source_len, target_len) ==
    IF source_len = 0 /\ target_len = 0 THEN One
    ELSE LET total_units == Max2(source_len, target_len)
             counted == SelectSeq(operations,
                            LAMBDA op : op.operation \in {"add", "delete", "replace"})
             changed_units ==
                 SumSeq([n \in 1..Len(counted) |->
                            Max2(Len(counted[n].source_content),
                                 Len(counted[n].target_content))])
         IN  <<Max2(0, Max2(total_units, 1) - changed_units), Max2(total_units, 1)>>

NoResult == [operations |-> <<>>, source_units |-> <<>>, target_units |-> <<>>,
             similarity_ratio |-> <<0, 1>>, returned |-> FALSE]

\* the dispatch of compare_texts on the algorithm
RawOperations(source_units, target_units, alg) ==
    CASE alg = "syntactic" -> _syntactic_diff(source_units, target_units)
      [] alg = "semantic"  -> _semantic_diff(source_units, target_units)
      [] alg = "hybrid"    -> _hybrid_diff(source_units, target_units)
      [] OTHER             -> _syntactic_diff(source_units, target_units)

\* the DiffResult compare_texts builds from the post-processed operations
RatedResult(operations, source_units, target_units) ==
    [operations |-> operations,
     source_units |-> source_units,
     target_units |-> target_units,
     similarity_ratio |->
         _calculate_similarity(operations, Len(source_units), Len(target_units)),
     returned |-> TRUE]

\* compare_texts on tokenized input
DiffUnits(source_units, target_units, alg) ==
    RatedResult(_post_process_operations(RawOperations(source_units, target_units, alg)),
                source_units, target_units)

\* compare_texts: tokenize, diff with the chosen algorithm, post-process, rate
DiffResult(src, tgt, g, alg) ==
    DiffUnits(_tokenize_text(src, g), _tokenize_text(tgt, g), alg)

(***************************************************************************)
(* Python values of the metric stage.  A float is finite (an exact         *)
(* rational), nan, inf or -inf; the other values the statistics            *)
(* dictionaries may hold are strings and None.                             *)
(***************************************************************************)
RECURSIVE GCD(_, _)
GCD(x, y) == IF y = 0 THEN x ELSE GCD(y, x % y)
Abs(x) == IF x < 0 THEN -x ELSE x

Norm(r) ==
    LET g == GCD(Abs(r[1]), r[2])
    IN  <<r[1] \div g, r[2] \div g>>
RatAdd(p, q) == Norm(<<p[1] * q[2] + q[1] * p[2], p[2] * q[2]>>)
RatSub(p, q) == Norm(<<p[1] * q[2] - q[1] * p[2], p[2] * q[2]>>)
RatMul(p, q) == Norm(<<p[1] * q[1], p[2] * q[2]>>)
Zero == <<0, 1>>

Float(r) == [type |-> "float", cls |-> "finite", val |-> Norm(r)]
NaN      == [type |-> "float", cls |-> "nan", val |-> Zero]
PosInf   == [type |-> "float", cls |-> "inf", val |-> Zero]
NegInf   == [type |-> "float", cls |-> "-inf", val |-> Zero]
Str(s)   == [type |-> "str", cls |-> s, val |-> Zero]
None     == [type |-> "none", cls |-> "none", val |-> Zero]

IsFinite(x) == x.type = "float" /\ x.cls = "finite"

\* x * w for a finite w > 0
FMulPos(x, w) == IF IsFinite(x) THEN Float(RatMul(x.val, w)) ELSE x

\* x + y
FAdd(x, y) ==
    IF x.cls = "nan" \/ y.cls = "nan" THEN NaN
    ELSE IF IsFinite(x) /\ IsFinite(y) THEN Float(RatAdd(x.val, y.val))
    ELSE IF IsFinite(x) THEN y
    ELSE IF IsFinite(y) THEN x
    ELSE IF x.cls = y.cls THEN x ELSE NaN

\* x < y (False whenever a nan is involved)
FLess(x, y) ==
    IF x.cls = "nan" \/ y.cls = "nan" THEN FALSE
    ELSE IF IsFinite(x) /\ IsFinite(y) THEN RatLess(x.val, y.val)
    ELSE IF x.cls = y.cls THEN FALSE
    ELSE x.cls = "-inf" \/ y.cls = "inf"

\* the builtins min(a, b) and max(a, b): the first argument unless the second
\* is strictly smaller (greater)
PyMin(a, b) == IF FLess(b, a) THEN b ELSE a
PyMax(a, b) == IF FLess(a, b) THEN b ELSE a

\* round(x, ndigits) with unit = 10^ndigits: the nearest multiple of 1/unit.
\* Exactly half-way between two multiples the binary value of the float
\* decides, so both neighbours are possible outcomes.
RoundSet(x, unit) ==
    IF ~IsFinite(x) THEN {x}
    ELSE LET n == x.val[1] * unit
             d == x.val[2]
             lo == (n - (n % d)) \div d
             rem == n % d
         IN  IF 2 * rem < d THEN {Float(<<lo, unit>>)}
             ELSE IF 2 * rem > d THEN {Float(<<lo + 1, unit>>)}
             ELSE {Float(<<lo, unit>>), Float(<<lo + 1, unit>>)}

\* float(value) for the strings of the model; ValueError for any other string
NumericStrings == {"0.5", "nan", "inf", "-inf"}
ParseFloat(s) ==
    CASE s = "0.5"  -> Float(<<1, 2>>)
      [] s = "nan"  -> NaN
      [] s = "inf"  -> PosInf
      [] s = "-inf" -> NegInf

\* str.lower() of the label strings of the model
LowerLabel(s) == IF s = "MINOR" THEN "minor" ELSE s

\* ComparisonService._ensure_numeric
_ensure_numeric(value) ==
    IF value.type = "float" THEN value
    ELSE IF value.type = "str"
         THEN IF value.cls \in NumericStrings THEN ParseFloat(value.cls)
              ELSE CASE LowerLabel(value.cls) = "minimal"  -> Float(<<1, 2>>)
                     [] LowerLabel(value.cls) = "minor"    -> Float(<<3, 2>>)
                     [] LowerLabel(value.cls) = "moderate" -> Float(<<5, 2>>)
                     [] LowerLabel(value.cls) = "major"    -> Float(<<7, 2>>)
                     [] LowerLabel(value.cls) = "breaking" -> Float(<<4, 1>>)
                     [] OTHER                              -> Float(Zero)
         ELSE Float(Zero)

\* a variant of the score whose second band lacks its offset of 1.0
SignificanceWithoutOffset(change_intensity) ==
    LET ci == PyMax(Float(Zero), PyMin(Float(One), change_intensity)).val
    IN  IF RatLess(ci, <<1, 10>>)
        THEN RoundSet(Float(RatMul(ci, <<10, 1>>)), 100)
        ELSE IF RatLess(ci, <<3, 10>>)
        THEN RoundSet(Float(RatMul(RatSub(ci, <<1, 10>>), <<5, 1>>)), 100)
        ELSE IF RatLess(ci, <<6, 10>>)
        THEN RoundSet(Float(RatAdd(<<2, 1>>,
                                   RatMul(RatSub(ci, <<3, 10>>), <<333, 100>>))), 100)
        ELSE RoundSet(Float(RatAdd(<<3, 1>>,
                                   RatMul(RatSub(ci, <<6, 10>>), <<5, 2>>))), 100)

\* a variant of the score whose last band has the slope 5.0 instead of 2.5
SignificanceSteep(change_intensity) ==
    LET ci == PyMax(Float(Zero), PyMin(Float(One), change_intensity)).val
    IN  IF RatLess(ci, <<1, 10>>)
        THEN RoundSet(Float(RatMul(ci, <<10, 1>>)), 100)
        ELSE IF RatLess(ci, <<3, 10>>)
        THEN RoundSet(Float(RatAdd(One, RatMul(RatSub(ci, <<1, 10>>), <<5, 1>>))), 100)
        ELSE IF RatLess(ci, <<6, 10>>)
        THEN RoundSet(Float(RatAdd(<<2, 1>>,
                                   RatMul(RatSub(ci, <<3, 10>>), <<333, 100>>))), 100)
        ELSE RoundSet(Float(RatAdd(<<3, 1>>,
                                   RatMul(RatSub(ci, <<6, 10>>), <<5, 1>>))), 100)

\* ComparisonService._calculate_change_significance_score: the possible
\* results for one change_intensity (several only at a rounding tie)
_calculate_change_significance_score(change_intensity) ==
    LET ci == PyMax(Float(Zero), PyMin(Float(One), change_intensity)).val
    IN  IF RatLess(ci, <<1, 10>>)
        THEN RoundSet(Float(RatMul(ci, <<10, 1>>)), 100)
        ELSE IF RatLess(ci, <<3, 10>>)
        THEN RoundSet(Float(RatAdd(One, RatMul(RatSub(ci, <<1, 10>>), <<5, 1>>))), 100)
        ELSE IF RatLess(ci, <<6, 10>>)
        THEN RoundSet(Float(RatAdd(<<2, 1>>,
                                   RatMul(RatSub(ci, <<3, 10>>), <<333, 100>>))), 100)
        ELSE RoundSet(Float(RatAdd(<<3, 1>>,
                                   RatMul(RatSub(ci, <<6, 10>>), <<5, 2>>))), 100)

\* A dimension result as the metric stage reads it: the value found under its
\* statistics key, or Missing when the result has no such statistic (an error
\* result without statistics)
Missing == [type |-> "missing", cls |-> "missing", val |-> Zero]

\* diff.get("statistics", {}).get(key, 0.0)
StatGet(dimension) == IF dimension.type = "missing" THEN Float(Zero) ELSE dimension

\* a variant of the weighted sum with the weight 0.25 for every dimension
EqualWeights(text_similarity, structural_similarity, semantic_similarity, intent_similarity) ==
    FAdd(FAdd(FAdd(FMulPos(text_similarity, <<1, 4>>),
                   FMulPos(structural_similarity, <<1, 4>>)),
              FMulPos(semantic_similarity, <<1, 4>>)),
         FMulPos(intent_similarity, <<1, 4>>))

\* weights = {"text": 0.4, "structure": 0.2, "semantic": 0.3, "intent": 0.1}
WeightedSum(text_similarity, structural_similarity, semantic_similarity, intent_similarity) ==
    FAdd(FAdd(FAdd(FMulPos(text_similarity, <<4, 10>>),
                   FMulPos(structural_similarity, <<2, 10>>)),
              FMulPos(semantic_similarity, <<3, 10>>)),
         FMulPos(intent_similarity, <<1, 10>>))

\* a variant of the clamp that lets every value through
ClampNone(x) == x

\* overall_similarity = max(0.0, min(1.0, overall_similarity))
Clamp01(x) == PyMax(Float(Zero), PyMin(Float(One), x))

\* ComparisonService._calculate_comparison_metrics: the metrics dictionaries
\* the call can return (several only at a rounding tie)
_calculate_comparison_metrics(text_diff, structure_diff, semantic_diff, intent_diff) ==
    LET text_similarity == _ensure_numeric(StatGet(text_diff))
        structural_similarity == _ensure_numeric(StatGet(structure_diff))
        semantic_similarity == _ensure_numeric(StatGet(semantic_diff))
        intent_similarity == _ensure_numeric(StatGet(intent_diff))
        overall_similarity ==
            Clamp01(WeightedSum(text_similarity, structural_similarity,
                                semantic_similarity, intent_similarity))
        change_intensity == Float(RatSub(One, overall_similarity.val))
    IN  { [overall_similarity    |-> o,
           change_intensity      |-> c,
           text_similarity       |-> t,
           structural_similarity |-> st,
           semantic_similarity   |-> se,
           intent_similarity     |-> i,
           change_significance   |-> sg,
           similarity_score      |-> o,
           change_score          |-> c] :
          o \in RoundSet(overall_similarity, 1000),
          c \in RoundSet(change_intensity, 1000),
          t \in RoundSet(text_similarity, 1000),
          st \in RoundSet(structural_similarity, 1000),
          se \in RoundSet(semantic_similarity, 1000),
          i \in RoundSet(intent_similarity, 1000),
          sg \in _calculate_change_significance_score(change_intensity) }

MetricFields == {"overall_similarity", "change_intensity", "text_similarity",
                 "structural_similarity", "semantic_similarity", "intent_similarity",
                 "change_significance", "similarity_score", "change_score"}

(***************************************************************************)
(* Semantic aligner.  An embedding is a vector with components in          *)
(* hundredths, so a dot product is in ten-thousandths.                     *)
(***************************************************************************)
RECURSIVE Dot(_, _)
Dot(u, v) == IF u = <<>> THEN 0 ELSE Head(u) * Head(v) + Dot(Tail(u), Tail(v))

\* similarity = float(embeddings_a[i] @ embeddings_b[j])
CosineSimilarity(u, v) == Norm(<<Dot(u, v), 10000>>)

min_alignment_similarity == <<3, 10>>    \* best_similarity > 0.3

\* a variant of the inner loop that does not skip the chunks in used_b
RECURSIVE BestChunkIgnoringUsed(_, _, _, _, _, _)
BestChunkIgnoringUsed(embedding, embs_b, used_b, j, best_j, best_similarity) ==
    IF j >= Len(embs_b) THEN <<best_j, best_similarity>>
    ELSE LET similarity == CosineSimilarity(embedding, embs_b[j + 1])
         IN  IF RatLess(best_similarity, similarity)
             THEN BestChunkIgnoringUsed(embedding, embs_b, used_b, j + 1, j, similarity)
             ELSE BestChunkIgnoringUsed(embedding, embs_b, used_b, j + 1,
                                        best_j, best_similarity)

\* a variant of the inner loop that takes a later chunk of B when it is as
\* similar as the best one so far
RECURSIVE BestChunkLatest(_, _, _, _, _, _)
BestChunkLatest(embedding, embs_b, used_b, j, best_j, best_similarity) ==
    IF j >= Len(embs_b) THEN <<best_j, best_similarity>>
    ELSE IF j \in used_b
         THEN BestChunkLatest(embedding, embs_b, used_b, j + 1, best_j, best_similarity)
         ELSE LET similarity == CosineSimilarity(embedding, embs_b[j + 1])
              IN  IF ~RatLess(similarity, best_similarity)
                  THEN BestChunkLatest(embedding, embs_b, used_b, j + 1, j, similarity)
                  ELSE BestChunkLatest(embedding, embs_b, used_b, j + 1,
                                       best_j, best_similarity)

\* the inner loop of _align_chunks_semantically over the chunks of B, from
\* index j on: <<best_j, best_similarity>>
RECURSIVE BestChunk(_, _, _, _, _, _)
BestChunk(embedding, embs_b, used_b, j, best_j, best_similarity) ==
    IF j >= Len(embs_b) THEN <<best_j, best_similarity>>
    ELSE IF j \in used_b
         THEN BestChunk(embedding, embs_b, used_b, j + 1, best_j, best_similarity)
         ELSE LET similarity == CosineSimilarity(embedding, embs_b[j + 1])
              IN  IF RatLess(best_similarity, similarity)
                  THEN BestChunk(embedding, embs_b, used_b, j + 1, j, similarity)
                  ELSE BestChunk(embedding, embs_b, used_b, j + 1, best_j, best_similarity)

\* the outer loop over the chunks of A, from index i on
RECURSIVE AlignLoop(_, _, _, _)
AlignLoop(embs_a, embs_b, i, used_b) ==
    IF i >= Len(embs_a) THEN <<>>
    ELSE LET best == BestChunk(embs_a[i + 1], embs_b, used_b, 0, -1, Zero)
             best_j == best[1]
             best_similarity == best[2]
         IN  IF best_j >= 0 /\ RatLess(min_alignment_similarity, best_similarity)
             THEN << [chunk_a_index |-> i, chunk_b_index |-> best_j,
                      similarity |-> best_similarity] >>
                  \o AlignLoop(embs_a, embs_b, i + 1, used_b \cup {best_j})
             ELSE AlignLoop(embs_a, embs_b, i + 1, used_b)

\* _align_chunks_semantically, given what embed_texts returned for each side
_align_chunks_semantically(embs_a, embs_b) ==
    IF Len(embs_a) = 0 \/ Len(embs_b) = 0 THEN <<>>
    ELSE AlignLoop(embs_a, embs_b, 0, {})

(***************************************************************************)
(* ComparisonService: the four dimension comparisons                       *)
(*   A chunk row is [text, heading, intent_label, embedding]; NULL is the  *)
(*   string "NULL"; embedding is what the embedding service returns for    *)
(*   the chunk's text.                                                     *)
(***************************************************************************)
NULL == "NULL"

Chunk(text, heading, intent_label, embedding) ==
    [text |-> text, heading |-> heading, intent_label |-> intent_label,
     embedding |-> embedding]

\* "\n".join(chunk.text for chunk in chunks)
RECURSIVE JoinLines(_)
JoinLines(texts) ==
    IF texts = <<>> THEN <<>>
    ELSE IF Len(texts) = 1 THEN Head(texts)
    ELSE Head(texts) \o <<"\n">> \o JoinLines(Tail(texts))

\* _get_document_content
_get_document_content(rows) == JoinLines([n \in 1..Len(rows) |-> rows[n].text])

\* _compare_text_content: the similarity_ratio statistic, Missing for the error
\* result returned when a content is empty
_compare_text_content(rows_a, rows_b) ==
    LET content_a == _get_document_content(rows_a)
        content_b == _get_document_content(rows_b)
    IN  IF content_a = <<>> \/ content_b = <<>> THEN Missing
        ELSE Float(ratio(content_a, content_b))

\* _extract_structure_elements: the headings of the sections, one section per
\* chunk that has a heading
SectionHeadings(rows) ==
    LET headed == SelectSeq(rows, LAMBDA c : c.heading # NULL /\ c.heading # "")
    IN  [n \in 1..Len(headed) |-> headed[n].heading]

\* a variant of _calculate_structure_similarity that counts the matched
\* headings against the longer side only
StructureSimilarityByLonger(headings_a, headings_b) ==
    IF headings_a = <<>> /\ headings_b = <<>> THEN One
    ELSE IF headings_a = <<>> \/ headings_b = <<>> THEN Zero
    ELSE RatMul(ratio(headings_a, headings_b),
                <<Len(headings_a) + Len(headings_b),
                  2 * Max2(Len(headings_a), Len(headings_b))>>)

\* _calculate_structure_similarity
_calculate_structure_similarity(headings_a, headings_b) ==
    IF headings_a = <<>> /\ headings_b = <<>> THEN One
    ELSE IF headings_a = <<>> \/ headings_b = <<>> THEN Zero
    ELSE ratio(headings_a, headings_b)

\* _compare_document_structure: the structural_similarity statistic
_compare_document_structure(rows_a, rows_b) ==
    Float(_calculate_structure_similarity(SectionHeadings(rows_a), SectionHeadings(rows_b)))

RECURSIVE RatSum(_)
RatSum(s) == IF s = <<>> THEN Zero ELSE RatAdd(Head(s), RatSum(Tail(s)))

\* a variant of _compare_semantic_content that divides the total similarity
\* by the number of chunks of A instead of the number of alignments
SemanticOverChunksOfA(rows_a, rows_b, has_embedding_service) ==
    IF ~has_embedding_service THEN Float(Zero)
    ELSE IF rows_a = <<>> \/ rows_b = <<>> THEN Float(Zero)
    ELSE LET found == _align_chunks_semantically(
                          [n \in 1..Len(rows_a) |-> rows_a[n].embedding],
                          [n \in 1..Len(rows_b) |-> rows_b[n].embedding])
             total_similarity == RatSum([n \in 1..Len(found) |-> found[n].similarity])
         IN  Float(RatMul(total_similarity, <<1, Len(rows_a)>>))

\* a variant of _compare_semantic_content that averages the similarities over
\* the chunks of both sides instead of over the alignments found
SemanticOverBothSides(rows_a, rows_b, has_embedding_service) ==
    IF ~has_embedding_service THEN Float(Zero)
    ELSE IF rows_a = <<>> \/ rows_b = <<>> THEN Float(Zero)
    ELSE LET found == _align_chunks_semantically(
                          [n \in 1..Len(rows_a) |-> rows_a[n].embedding],
                          [n \in 1..Len(rows_b) |-> rows_b[n].embedding])
             total_similarity == RatSum([n \in 1..Len(found) |-> found[n].similarity])
         IN  Float(RatMul(total_similarity, <<1, Len(rows_a) + Len(rows_b)>>))

\* _compare_semantic_content: the semantic_similarity_score statistic
_compare_semantic_content(rows_a, rows_b, has_embedding_service) ==
    IF ~has_embedding_service THEN Float(Zero)
    ELSE IF rows_a = <<>> \/ rows_b = <<>> THEN Float(Zero)
    ELSE LET found == _align_chunks_semantically(
                          [n \in 1..Len(rows_a) |-> rows_a[n].embedding],
                          [n \in 1..Len(rows_b) |-> rows_b[n].embedding])
             valid == SelectSeq(found, LAMBDA al : RatLess(Zero, al.similarity))
             total_similarity == RatSum([n \in 1..Len(valid) |-> valid[n].similarity])
         IN  Float(RatMul(total_similarity, <<1, Max2(Len(valid), 1)>>))

\* the intent distribution of the chunks the query returns
IntentCount(rows, intent) ==
    Cardinality({n \in 1..Len(rows) :
                    (IF rows[n].intent_label = "" THEN "unknown"
                     ELSE rows[n].intent_label) = intent})

\* _compare_intent_patterns: the intent_similarity statistic
_compare_intent_patterns(rows_a, rows_b) ==
    LET chunks_a == SelectSeq(rows_a, LAMBDA c : c.intent_label # NULL)
        chunks_b == SelectSeq(rows_b, LAMBDA c : c.intent_label # NULL)
        label(c) == IF c.intent_label = "" THEN "unknown" ELSE c.intent_label
        all_intents == {label(chunks_a[n]) : n \in 1..Len(chunks_a)}
                           \cup {label(chunks_b[n]) : n \in 1..Len(chunks_b)}
        diffs == {<<intent, Abs(IntentCount(chunks_a, intent)
                                   - IntentCount(chunks_b, intent))>> :
                     intent \in all_intents}
        RECURSIVE SumDiffs(_)
        SumDiffs(S) == IF S = {} THEN 0
                       ELSE LET x == CHOOSE x \in S : TRUE
                            IN  x[2] + SumDiffs(S \ {x})
        total_diff == SumDiffs(diffs)
        max_chunks == Max2(Max2(Len(chunks_a), Len(chunks_b)), 1)
        intent_similarity == RatSub(One, <<total_diff, 2 * max_chunks>>)
    IN  Float(RatMax(Zero, intent_similarity))

\* key "error" of the dictionary _compare_text_content returns: its message,
\* NULL when the dictionary has no such key
TextError(rows_a, rows_b) ==
    IF _get_document_content(rows_a) = <<>> \/ _get_document_content(rows_b) = <<>>
    THEN "Could not retrieve document content"
    ELSE NULL

\* key "error" of the dictionary _compare_semantic_content returns
SemanticError(rows_a, rows_b, has_embedding_service) ==
    IF ~has_embedding_service THEN "Embedding service not available"
    ELSE IF rows_a = <<>> \/ rows_b = <<>> THEN "No chunks found for comparison"
    ELSE NULL

\* intent_distribution_a and intent_distribution_b of _compare_intent_patterns:
\* the count of every label among the chunks the query returns
IntentDistribution(rows) ==
    LET found == SelectSeq(rows, LAMBDA c : c.intent_label # NULL)
        intents == {IF found[n].intent_label = "" THEN "unknown"
                    ELSE found[n].intent_label : n \in 1..Len(found)}
    IN  [intent \in intents |-> IntentCount(found, intent)]

\* the four dictionaries compare_documents collects for two chunk streams
DimensionReport(rows_a, rows_b, has_embedding_service) ==
    [text_diff |->
         [error |-> TextError(rows_a, rows_b),
          similarity_ratio |-> _compare_text_content(rows_a, rows_b)],
     structure_diff |->
         [headings_a |-> SectionHeadings(rows_a),
          headings_b |-> SectionHeadings(rows_b),
          structural_similarity |-> _compare_document_structure(rows_a, rows_b)],
     semantic_diff |->
         [error |-> SemanticError(rows_a, rows_b, has_embedding_service),
          semantic_similarity_score |->
              _compare_semantic_content(rows_a, rows_b, has_embedding_service)],
     intent_diff |->
         [intent_distribution_a |-> IntentDistribution(rows_a),
          intent_distribution_b |-> IntentDistribution(rows_b),
          intent_similarity |-> _compare_intent_patterns(rows_a, rows_b)]]

(***************************************************************************)
(* ComparisonService: the comparison cache and compare_documents           *)
(*   A row of table comparisons is                                         *)
(*   [doc_slug, version_a, version_b, metrics_json, llm_summary,           *)
(*    similarity_score, change_score]; metrics_json maps each metric name  *)
(*   to the value json.loads gives for it.                                 *)
(***************************************************************************)
NoMetrics == [f \in MetricFields |-> None]

ErrorResponse ==
    [kind |-> "error", doc_slug |-> "", version_a |-> 0, version_b |-> 0,
     cached |-> FALSE, metrics |-> NoMetrics, ai_summary |-> "none"]
NoResponse == [ErrorResponse EXCEPT !.kind = "none"]

HasKey(row, doc_slug, version_a, version_b) ==
    row.doc_slug = doc_slug /\ row.version_a = version_a /\ row.version_b = version_b

\* query(Comparison).filter(...).first(): the index of the first row, 0 if none
FirstRow(table, doc_slug, version_a, version_b) ==
    LET hits == {n \in 1..Len(table) : HasKey(table[n], doc_slug, version_a, version_b)}
    IN  IF hits = {} THEN 0 ELSE SetMin(hits)

RemoveAt(table, n) == SubSeq(table, 1, n - 1) \o SubSeq(table, n + 1, Len(table))

\* _format_comparison_result: every metric goes through _ensure_numeric
_format_comparison_result(row) ==
    [kind |-> "result", doc_slug |-> row.doc_slug,
     version_a |-> row.version_a, version_b |-> row.version_b,
     cached |-> TRUE,
     metrics |-> [f \in MetricFields |-> _ensure_numeric(row.metrics_json[f])],
     ai_summary |-> row.llm_summary]

\* a variant of the cache lookup that never finds a record
GetCachedNever(table, doc_slug, version_a, version_b) ==
    [hit |-> FALSE, result |-> NoResponse, table |-> table]

\* _get_cached_comparison: [hit, result, table], table being the cache afterwards
_get_cached_comparison(table, doc_slug, version_a, version_b) ==
    LET n == FirstRow(table, doc_slug, version_a, version_b)
        formatted == _format_comparison_result(table[n])
    IN  IF n = 0 THEN [hit |-> FALSE, result |-> NoResponse, table |-> table]
        ELSE IF formatted.metrics["change_significance"].type = "str"
             THEN [hit |-> FALSE, result |-> NoResponse, table |-> RemoveAt(table, n)]
             ELSE [hit |-> TRUE, result |-> formatted, table |-> table]

\* the column values _cache_comparison_result stores for a result
CacheRow(res) ==
    [doc_slug |-> res.doc_slug,
     version_a |-> res.version_a, version_b |-> res.version_b,
     metrics_json |-> [f \in MetricFields |-> _ensure_numeric(res.metrics[f])],
     llm_summary |-> res.ai_summary,
     similarity_score |-> _ensure_numeric(res.metrics["overall_similarity"]),
     change_score |-> _ensure_numeric(res.metrics["change_intensity"])]

\* the write of _cache_comparison_result once its query gave row n (0: none)
WriteRow(table, n, res) ==
    IF n > 0 THEN [table EXCEPT ![n] = CacheRow(res)] ELSE Append(table, CacheRow(res))

\* _cache_comparison_result: update the first row of the key, or add a row
_cache_comparison_result(table, res) ==
    WriteRow(table, FirstRow(table, res.doc_slug, res.version_a, res.version_b), res)

\* the metrics a fresh comparison of two chunk streams can produce
ComputeMetrics(rows_a, rows_b, has_embedding_service) ==
    _calculate_comparison_metrics(
        _compare_text_content(rows_a, rows_b),
        _compare_document_structure(rows_a, rows_b),
        _compare_semantic_content(rows_a, rows_b, has_embedding_service),
        _compare_intent_patterns(rows_a, rows_b))

\* _generate_comparison_summary: the risk_assessment of the summary
_generate_comparison_summary(m) ==
    IF FLess(Float(<<9, 10>>), m["overall_similarity"]) THEN "low"
    ELSE IF FLess(Float(<<7, 10>>), m["overall_similarity"]) THEN "medium"
    ELSE "high"

\* a variant of the result in which the summary is merged into the metrics,
\* its risk label landing on change_significance
FreshResultSummaryWins(doc_a, doc_b, m, has_llm_service) ==
    [kind |-> "result", doc_slug |-> doc_a.slug,
     version_a |-> doc_a.version, version_b |-> doc_b.version,
     cached |-> FALSE,
     metrics |-> [f \in MetricFields |->
                     IF has_llm_service /\ f = "change_significance"
                     THEN Str(_generate_comparison_summary(m))
                     ELSE _ensure_numeric(m[f])],
     ai_summary |-> IF has_llm_service THEN _generate_comparison_summary(m) ELSE "none"]

\* the result dictionary compare_documents builds from the metrics m
FreshResult(doc_a, doc_b, m, has_llm_service) ==
    [kind |-> "result", doc_slug |-> doc_a.slug,
     version_a |-> doc_a.version, version_b |-> doc_b.version,
     cached |-> FALSE,
     metrics |-> [f \in MetricFields |-> _ensure_numeric(m[f])],
     ai_summary |-> IF has_llm_service THEN _generate_comparison_summary(m) ELSE "none"]

\* _fallback_comparison_summary: its risk_assessment
_fallback_comparison_summary == "unknown"

\* the results compare_documents can build from the metrics m: with a
\* summarizer the summary is the generated one, or the fallback one when an
\* exception is caught on the way
FreshResults(doc_a, doc_b, m, has_llm_service) ==
    IF has_llm_service
    THEN {FreshResult(doc_a, doc_b, m, TRUE),
          [FreshResult(doc_a, doc_b, m, TRUE)
              EXCEPT !.ai_summary = _fallback_comparison_summary]}
    ELSE {FreshResult(doc_a, doc_b, m, FALSE)}

(***************************************************************************)
(* State machines.  Every component has its own variables; a component     *)
(* that a specification does not exercise stays in its idle state.         *)
(***************************************************************************)
IdleDiff ==
    /\ source = <<>> /\ target = <<>>
    /\ granularity = "word" /\ algorithm = "syntactic"
    /\ result = NoResult
IdleScore == intensity = <<>> /\ score = <<>>
IdleMetrics == dimensions = <<>> /\ metrics = <<>>
IdleAlign == embeddings_a = <<>> /\ embeddings_b = <<>> /\ alignments = <<>>
IdleService ==
    /\ documents = <<>> /\ chunks = <<>> /\ comparisons = <<>>
    /\ llm_service = FALSE /\ embedding_service = FALSE
    /\ response = NoResponse /\ calls = 0 /\ computations = 0
    /\ workers = <<>> /\ edits = 0
IdleDimensions == stream_a = <<>> /\ stream_b = <<>> /\ report = <<>>
IdleAnalysis == status = <<>> /\ background_tasks = <<>> /\ answer = "none"
IdleChunker ==
    /\ full_text = <<>> /\ chunk_size = 0 /\ overlap = 0 /\ start_pos = 0
    /\ preserve_boundaries = TRUE
    /\ chunk_index = 0 /\ emitted = <<>> /\ chunking = "idle"

(* ---- AdvancedDiffEngine.compare_texts ---- *)
Vocabulary == {<<"a">>, <<"A">>, <<"b">>}
UnitSeqs == SeqsUpTo(Vocabulary, MaxUnits)
Texts == SeqsUpTo(Chars, MaxTextLen)

compare_texts ==
    /\ ~result.returned
    /\ result' = DiffResult(source, target, granularity, algorithm)
    /\ UNCHANGED <<source, target, granularity, algorithm>>
    /\ UNCHANGED <<score_vars, metric_vars, align_vars, service_vars, dimension_vars,
                   analysis_vars, chunker_vars>>

\* two texts of words, any algorithm
InitDiff ==
    /\ \E a \in UnitSeqs, b \in UnitSeqs : source = Join(a) /\ target = Join(b)
    /\ granularity = "word"
    /\ algorithm \in Algorithms
    /\ result = NoResult
    /\ IdleScore /\ IdleMetrics /\ IdleAlign /\ IdleService /\ IdleDimensions
    /\ IdleAnalysis /\ IdleChunker
NextDiff == compare_texts
SpecDiff == InitDiff /\ [][NextDiff]_vars

\* a text compared with itself, any granularity, any algorithm
InitSelf ==
    /\ source \in Texts
    /\ target = source
    /\ granularity \in Granularities
    /\ algorithm \in Algorithms
    /\ result = NoResult
    /\ IdleScore /\ IdleMetrics /\ IdleAlign /\ IdleService /\ IdleDimensions
    /\ IdleAnalysis /\ IdleChunker
NextSelf == compare_texts
SpecSelf == InitSelf /\ [][NextSelf]_vars

(* ---- ComparisonService._calculate_change_significance_score ---- *)
\* change intensities in thousandths: every fortieth of [0, 1], and every
\* thousandth within 0.005 of a band boundary
IntensityGrid ==
    {k \in 0..1000 : \/ k % 25 = 0
                     \/ \E b \in {0, 100, 300, 600, 1000} : Abs(k - b) <= 5}

\* one call of the function on the next of the two intensities
score_change ==
    /\ Len(score) < Len(intensity)
    /\ \E sg \in _calculate_change_significance_score(intensity[Len(score) + 1]) :
           score' = Append(score, sg)
    /\ UNCHANGED intensity
    /\ UNCHANGED <<diff_vars, metric_vars, align_vars, service_vars, dimension_vars,
                   analysis_vars, chunker_vars>>

InitSig ==
    /\ \E x \in IntensityGrid, y \in IntensityGrid :
           intensity = <<Float(<<x, 1000>>), Float(<<y, 1000>>)>>
    /\ score = <<>>
    /\ IdleDiff /\ IdleMetrics /\ IdleAlign /\ IdleService /\ IdleDimensions
    /\ IdleAnalysis /\ IdleChunker
NextSig == score_change
SpecSig == InitSig /\ [][NextSig]_vars

(* ---- ComparisonService._calculate_comparison_metrics ---- *)
\* what a statistics dictionary may hold for a dimension
DimensionValues ==
    {Float(<<k, 1000>>) : k \in {-500, 0, 5, 333, 1000, 1500}}
        \cup {Str(t) : t \in {"0.5", "nan", "inf", "-inf", "minor", "garbage"}}
        \cup {None, Missing}

\* one call of the synthesizer on the four dimension results
synthesize ==
    /\ metrics = <<>>
    /\ \E m \in _calculate_comparison_metrics(dimensions[1], dimensions[2],
                                              dimensions[3], dimensions[4]) :
           metrics' = <<m>>
    /\ UNCHANGED dimensions
    /\ UNCHANGED <<diff_vars, score_vars, align_vars, service_vars, dimension_vars,
                   analysis_vars, chunker_vars>>

InitMetrics ==
    /\ dimensions \in DimensionValues \X DimensionValues \X DimensionValues
                          \X DimensionValues
    /\ metrics = <<>>
    /\ IdleDiff /\ IdleScore /\ IdleAlign /\ IdleService /\ IdleDimensions
    /\ IdleAnalysis /\ IdleChunker
NextMetrics == synthesize
SpecMetrics == InitMetrics /\ [][NextMetrics]_vars

(* ---- ComparisonService._align_chunks_semantically ---- *)
\* what embed_texts returns for a chunk: a unit vector, or the zero vector of
\* its failure fallback
Embeddings == {<<100, 0>>, <<0, 100>>, <<60, 80>>, <<28, 96>>, <<0, 0>>}

align_chunks ==
    /\ alignments = <<>>
    /\ alignments' = <<_align_chunks_semantically(embeddings_a, embeddings_b)>>
    /\ UNCHANGED <<embeddings_a, embeddings_b>>
    /\ UNCHANGED <<diff_vars, score_vars, metric_vars, service_vars, dimension_vars,
                   analysis_vars, chunker_vars>>

InitAlign ==
    /\ embeddings_a \in SeqsUpTo(Embeddings, MaxChunks)
    /\ embeddings_b \in SeqsUpTo(Embeddings, MaxChunks)
    /\ alignments = <<>>
    /\ IdleDiff /\ IdleScore /\ IdleMetrics /\ IdleService /\ IdleDimensions
    /\ IdleAnalysis /\ IdleChunker
NextAlign == align_chunks
SpecAlign == InitAlign /\ [][NextAlign]_vars

(* ---- ComparisonService.compare_documents ---- *)
\* the rows of table documents: two versions of one slug and one other slug
DocumentIds == {1, 2, 3}
RequestIds == DocumentIds \cup {4}
Documents ==
    [id \in DocumentIds |->
        CASE id = 1 -> [slug |-> "s1", version |-> 1]
          [] id = 2 -> [slug |-> "s1", version |-> 2]
          [] id = 3 -> [slug |-> "s2", version |-> 1]]

\* the chunk rows a version of slug s1 can have: none (not analysed yet) or one
\* of two chunkings; the document of slug s2 has none
ChunkLibrary ==
    { <<>>,
      << Chunk(<<"a", " ", "b">>, "H1", "overview", <<100, 0>>),
         Chunk(<<"b">>, NULL, "risk", <<0, 100>>) >>,
      << Chunk(<<"a", " ", "b">>, "H1", "overview", <<100, 0>>),
         Chunk(<<"A">>, "H2", NULL, <<60, 80>>) >> }

\* a record written before metrics were numeric: change_significance is a label
LegacyRow ==
    [doc_slug |-> "s1", version_a |-> 1, version_b |-> 2,
     metrics_json |->
         [f \in MetricFields |->
             CASE f \in {"overall_similarity", "similarity_score"} -> Float(<<9, 10>>)
               [] f \in {"change_intensity", "change_score"}       -> Float(<<1, 10>>)
               [] f = "change_significance"                        -> Str("minor")
               [] OTHER                                            -> Float(<<9, 10>>)],
     llm_summary |-> "none",
     similarity_score |-> Float(<<9, 10>>),
     change_score |-> Float(<<1, 10>>)]

\* a variant of the handler without the check that the slugs are the same
CompareAnySlug(doc_id_a, doc_id_b) ==
    /\ calls < MaxCalls
    /\ calls' = calls + 1
    /\ UNCHANGED <<documents, chunks, llm_service, embedding_service, workers, edits>>
    /\ UNCHANGED <<diff_vars, score_vars, metric_vars, align_vars, dimension_vars,
                   analysis_vars, chunker_vars>>
    /\ IF doc_id_a \notin DOMAIN documents \/ doc_id_b \notin DOMAIN documents
       THEN /\ response' = ErrorResponse
            /\ UNCHANGED <<comparisons, computations>>
       ELSE LET doc_a == documents[doc_id_a]
                doc_b == documents[doc_id_b]
                cached_result == _get_cached_comparison(comparisons, doc_a.slug,
                                                        doc_a.version, doc_b.version)
            IN  IF cached_result.hit
                THEN /\ response' = cached_result.result
                     /\ comparisons' = cached_result.table
                     /\ UNCHANGED computations
                ELSE \E m \in ComputeMetrics(chunks[doc_id_a], chunks[doc_id_b],
                                             embedding_service) :
                     \E res \in FreshResults(doc_a, doc_b, m, llm_service) :
                         /\ comparisons' =
                                _cache_comparison_result(cached_result.table, res)
                         /\ response' = res
                         /\ computations' = computations + 1

\* the whole handler: look the documents up, serve the cached record if the
\* cache has one, otherwise compare the four dimensions, synthesize the
\* metrics, summarise, store and return
compare_documents(doc_id_a, doc_id_b) ==
    /\ calls < MaxCalls
    /\ calls' = calls + 1
    /\ UNCHANGED <<documents, chunks, llm_service, embedding_service, workers, edits>>
    /\ UNCHANGED <<diff_vars, score_vars, metric_vars, align_vars, dimension_vars,
                   analysis_vars, chunker_vars>>
    /\ IF doc_id_a \notin DOMAIN documents \/ doc_id_b \notin DOMAIN documents
       THEN /\ response' = ErrorResponse
            /\ UNCHANGED <<comparisons, computations>>
       ELSE LET doc_a == documents[doc_id_a]
                doc_b == documents[doc_id_b]
                cached_result == _get_cached_comparison(comparisons, doc_a.slug,
                                                        doc_a.version, doc_b.version)
            IN  IF doc_a.slug # doc_b.slug
                THEN /\ response' = ErrorResponse
                     /\ UNCHANGED <<comparisons, computations>>
                ELSE IF cached_result.hit
                THEN /\ response' = cached_result.result
                     /\ comparisons' = cached_result.table
                     /\ UNCHANGED computations
                ELSE \E m \in ComputeMetrics(chunks[doc_id_a], chunks[doc_id_b],
                                             embedding_service) :
                     \E res \in FreshResults(doc_a, doc_b, m, llm_service) :
                         /\ comparisons' =
                                _cache_comparison_result(cached_result.table, res)
                         /\ response' = res
                         /\ computations' = computations + 1

InitService ==
    /\ documents = Documents
    /\ chunks \in {c \in [DocumentIds -> ChunkLibrary] : c[3] = <<>>}
    /\ comparisons \in {<<>>, <<LegacyRow>>}
    /\ llm_service \in BOOLEAN
    /\ embedding_service \in BOOLEAN
    /\ response = NoResponse
    /\ calls = 0
    /\ computations = 0
    /\ workers = <<>>
    /\ edits = 0
    /\ IdleDiff /\ IdleScore /\ IdleMetrics /\ IdleAlign /\ IdleDimensions
    /\ IdleAnalysis /\ IdleChunker
NextService == \E doc_id_a \in RequestIds, doc_id_b \in RequestIds :
                   compare_documents(doc_id_a, doc_id_b)
SpecService == InitService /\ [][NextService]_vars

(* ---- compare_documents in several worker processes (start.py --workers) ---- *)
\* Every worker process has its own session on the one database file; the
\* database runs each statement and each commit of a session as one step.
WorkerIds == 1..MaxWorkers
IdleWorker ==
    [pc |-> "idle", doc_id_a |-> 0, doc_id_b |-> 0, res |-> NoResponse, existing |-> 0]

\* compare_documents up to the result dictionary: the documents are looked
\* up, the cache is asked, and on a miss the comparison is computed
worker_compare(w, doc_id_a, doc_id_b) ==
    /\ workers[w].pc = "idle"
    /\ calls < MaxCalls
    /\ calls' = calls + 1
    /\ UNCHANGED <<documents, chunks, llm_service, embedding_service, computations, edits>>
    /\ UNCHANGED <<diff_vars, score_vars, metric_vars, align_vars, dimension_vars,
                   analysis_vars, chunker_vars>>
    /\ IF doc_id_a \notin DOMAIN documents \/ doc_id_b \notin DOMAIN documents
       THEN /\ response' = ErrorResponse
            /\ UNCHANGED <<comparisons, workers>>
       ELSE LET doc_a == documents[doc_id_a]
                doc_b == documents[doc_id_b]
                cached_result == _get_cached_comparison(comparisons, doc_a.slug,
                                                        doc_a.version, doc_b.version)
            IN  IF doc_a.slug # doc_b.slug
                THEN /\ response' = ErrorResponse
                     /\ UNCHANGED <<comparisons, workers>>
                ELSE IF cached_result.hit
                THEN /\ response' = cached_result.result
                     /\ comparisons' = cached_result.table
                     /\ UNCHANGED workers
                ELSE \E m \in ComputeMetrics(chunks[doc_id_a], chunks[doc_id_b],
                                             embedding_service) :
                     \E res \in FreshResults(doc_a, doc_b, m, llm_service) :
                         /\ workers' = [workers EXCEPT ![w] =
                                [pc |-> "built", doc_id_a |-> doc_id_a,
                                 doc_id_b |-> doc_id_b,
                                 res |-> res, existing |-> 0]]
                         /\ comparisons' = cached_result.table
                         /\ UNCHANGED response

\* _cache_comparison_result: the query for an existing record of the key
worker_query_existing(w) ==
    /\ workers[w].pc = "built"
    /\ workers' = [workers EXCEPT
           ![w].pc = "queried",
           ![w].existing = FirstRow(comparisons, workers[w].res.doc_slug,
                                    workers[w].res.version_a, workers[w].res.version_b)]
    /\ UNCHANGED <<documents, chunks, comparisons, llm_service, embedding_service,
                   response, calls, computations, edits>>
    /\ UNCHANGED <<diff_vars, score_vars, metric_vars, align_vars, dimension_vars,
                   analysis_vars, chunker_vars>>

\* _cache_comparison_result: the update or insert and its commit, then the
\* return of compare_documents
worker_commit(w) ==
    /\ workers[w].pc = "queried"
    /\ comparisons' = WriteRow(comparisons, workers[w].existing, workers[w].res)
    /\ response' = workers[w].res
    /\ computations' = computations + 1
    /\ workers' = [workers EXCEPT ![w] = IdleWorker]
    /\ UNCHANGED <<documents, chunks, llm_service, embedding_service, calls, edits>>
    /\ UNCHANGED <<diff_vars, score_vars, metric_vars, align_vars, dimension_vars,
                   analysis_vars, chunker_vars>>

\* the call is abandoned (the request is cancelled, the worker stops) or its
\* commit fails and is rolled back: nothing is written
worker_abandon(w) ==
    /\ workers[w].pc \in {"built", "queried"}
    /\ workers' = [workers EXCEPT ![w] = IdleWorker]
    /\ UNCHANGED <<documents, chunks, comparisons, llm_service, embedding_service,
                   response, calls, computations, edits>>
    /\ UNCHANGED <<diff_vars, score_vars, metric_vars, align_vars, dimension_vars,
                   analysis_vars, chunker_vars>>

InitWorkers ==
    /\ documents = Documents
    /\ chunks \in {c \in [DocumentIds -> ChunkLibrary] : c[3] = <<>>}
    /\ comparisons = <<>>
    /\ llm_service \in BOOLEAN
    /\ embedding_service \in BOOLEAN
    /\ response = NoResponse
    /\ calls = 0
    /\ computations = 0
    /\ workers = [w \in WorkerIds |-> IdleWorker]
    /\ edits = 0
    /\ IdleDiff /\ IdleScore /\ IdleMetrics /\ IdleAlign /\ IdleDimensions
    /\ IdleAnalysis /\ IdleChunker
NextWorkers ==
    \E w \in WorkerIds :
        \/ \E doc_id_a \in RequestIds, doc_id_b \in RequestIds :
               worker_compare(w, doc_id_a, doc_id_b)
        \/ worker_query_existing(w)
        \/ worker_commit(w)
        \/ worker_abandon(w)
SpecWorkers == InitWorkers /\ [][NextWorkers]_vars

(* ---- compare_documents while documents are uploaded, analysed, deleted ---- *)
\* the normalized contents uploaded under one title; contents of different
\* name have different checksums
Contents == {"x", "y", "z"}

\* the chunk rows analyze_document can save for a content: the chunk texts and
\* their embeddings are fixed by the content, the heading and the intent label
\* come from the LLM analysis of the chunk or, when it fails, from
\* _fallback_chunk_analysis (no heading, intent "other")
Analyses(content) ==
    CASE content = "x" ->
           { << Chunk(<<"a", " ", "b">>, "H1", "overview", <<100, 0>>),
                Chunk(<<"b">>, NULL, "risk", <<0, 100>>) >>,
             << Chunk(<<"a", " ", "b">>, NULL, "other", <<100, 0>>),
                Chunk(<<"b">>, NULL, "other", <<0, 100>>) >> }
      [] content = "y" ->
           { << Chunk(<<"a", " ", "b">>, "H1", "overview", <<100, 0>>),
                Chunk(<<"A">>, "H2", NULL, <<60, 80>>) >>,
             << Chunk(<<"a", " ", "b">>, NULL, "other", <<100, 0>>),
                Chunk(<<"A">>, NULL, "other", <<60, 80>>) >> }
      [] OTHER ->
           { << Chunk(<<"b">>, NULL, NULL, <<0, 100>>) >>,
             << Chunk(<<"b">>, NULL, "other", <<0, 100>>) >> }

\* a row of table documents with the content of its file
DocumentRow(slug, version, content) ==
    [slug |-> slug, version |-> version, content |-> content]

\* the id the database gives the next row of a table with these ids
NextId(ids) == IF ids = {} THEN 1 ELSE SetMax(ids) + 1

\* the number of documents of a slug
VersionCount(slug) ==
    Cardinality({j \in DOMAIN documents : documents[j].slug = slug})

\* the latest version of a slug: 0 if it has no document
LatestVersion(slug) ==
    SetMax({0} \cup {documents[i].version : i \in {j \in DOMAIN documents :
                                                    documents[j].slug = slug}})

\* DocumentService.create_document for the title of slug s1: the existing
\* document if the content is that of the latest version, else a new version
create_document(content) ==
    /\ edits < MaxEdits
    /\ edits' = edits + 1
    /\ LET version == LatestVersion("s1")
           same == \E i \in DOMAIN documents :
                       /\ documents[i].slug = "s1" /\ documents[i].version = version
                       /\ documents[i].content = content
           id == NextId(DOMAIN documents)
       IN  IF same THEN UNCHANGED <<documents, chunks>>
           ELSE /\ documents' = [i \in DOMAIN documents \cup {id} |->
                                    IF i = id THEN DocumentRow("s1", version + 1, content)
                                    ELSE documents[i]]
                /\ chunks' = [i \in DOMAIN chunks \cup {id} |->
                                 IF i = id THEN <<>> ELSE chunks[i]]
    /\ UNCHANGED <<comparisons, llm_service, embedding_service, response, calls,
                   computations, workers>>
    /\ UNCHANGED <<diff_vars, score_vars, metric_vars, align_vars, dimension_vars,
                   analysis_vars, chunker_vars>>

\* AnalysisService.analyze_document: _save_chunks_to_db replaces the chunk
\* rows of the document unless it is analysed already and not forced
analyze_document(document_id, force_reanalysis) ==
    /\ edits < MaxEdits
    /\ edits' = edits + 1
    /\ IF document_id \notin DOMAIN documents
       THEN UNCHANGED chunks
       ELSE IF /\ ~force_reanalysis
               /\ \E n \in 1..Len(chunks[document_id]) :
                      chunks[document_id][n].intent_label \notin {NULL, ""}
            THEN UNCHANGED chunks
            ELSE \E analysis \in Analyses(documents[document_id].content) :
                     chunks' = [chunks EXCEPT ![document_id] = analysis]
    /\ UNCHANGED <<documents, comparisons, llm_service, embedding_service, response,
                   calls, computations, workers>>
    /\ UNCHANGED <<diff_vars, score_vars, metric_vars, align_vars, dimension_vars,
                   analysis_vars, chunker_vars>>

\* DocumentService.delete_document: the document (or every version of its
\* slug) goes, its chunks with it
delete_document(document_id, delete_all_versions) ==
    /\ edits < MaxEdits
    /\ edits' = edits + 1
    /\ IF document_id \notin DOMAIN documents
       THEN UNCHANGED <<documents, chunks>>
       ELSE LET gone == IF delete_all_versions
                        THEN {i \in DOMAIN documents :
                                 documents[i].slug = documents[document_id].slug}
                        ELSE {document_id}
            IN  /\ documents' = [i \in DOMAIN documents \ gone |-> documents[i]]
                /\ chunks' = [i \in DOMAIN chunks \ gone |-> chunks[i]]
    /\ UNCHANGED <<comparisons, llm_service, embedding_service, response, calls,
                   computations, workers>>
    /\ UNCHANGED <<diff_vars, score_vars, metric_vars, align_vars, dimension_vars,
                   analysis_vars, chunker_vars>>

\* versions 1 and 2 of one slug are uploaded, each analysed or not yet
InitLifecycle ==
    /\ documents = [i \in {1, 2} |->
                       IF i = 1 THEN DocumentRow("s1", 1, "x")
                       ELSE DocumentRow("s1", 2, "y")]
    /\ chunks \in {c \in [{1, 2} -> {<<>>} \cup Analyses("x") \cup Analyses("y")] :
                       \A i \in {1, 2} :
                           c[i] \in {<<>>} \cup Analyses(documents[i].content)}
    /\ comparisons = <<>>
    /\ llm_service = FALSE
    /\ embedding_service = TRUE
    /\ response = NoResponse
    /\ calls = 0
    /\ computations = 0
    /\ workers = <<>>
    /\ edits = 0
    /\ IdleDiff /\ IdleScore /\ IdleMetrics /\ IdleAlign /\ IdleDimensions
    /\ IdleAnalysis /\ IdleChunker
\* version 1 is compared with any document; the later documents are the
\* ones uploaded again, analysed again and deleted
NextLifecycle ==
    \/ \E doc_id_b \in DocumentIds : compare_documents(1, doc_id_b)
    \/ \E content \in Contents \ {"x"} : create_document(content)
    \/ \E document_id \in DocumentIds \ {1}, force_reanalysis \in BOOLEAN :
           analyze_document(document_id, force_reanalysis)
    \/ \E document_id \in DocumentIds \ {1}, delete_all_versions \in BOOLEAN :
           delete_document(document_id, delete_all_versions)
SpecLifecycle == InitLifecycle /\ [][NextLifecycle]_vars

(* ---- the four dimension comparisons of compare_documents ---- *)
\* chunk rows that differ in their heading, in their intent label, in their
\* text and embedding
HeadingRows ==
    {Chunk(<<"a">>, heading, "overview", <<100, 0>>) :
        heading \in {NULL, "H1", "H2", "H3"}}
IntentRows ==
    {Chunk(<<"a">>, NULL, intent_label, <<100, 0>>) :
        intent_label \in {NULL, "", "overview", "risk"}}
EmbeddingRows ==
    {Chunk(<<"a">>, NULL, "overview", <<100, 0>>),
     Chunk(<<"b">>, NULL, "overview", <<0, 100>>)}

\* embed_texts when the model raises: a zero vector for every text
ZeroEmbeddings(rows) == [n \in 1..Len(rows) |-> [rows[n] EXCEPT !.embedding = <<0, 0>>]]

\* the chunk streams of the two versions: both sides differ in their
\* headings, or in their intent labels, or in their texts and embeddings
\* (either side with the embeddings of a working or of a failing model)
EmbeddedStreams ==
    SeqsUpTo(EmbeddingRows, MaxChunks)
        \cup {ZeroEmbeddings(rows) : rows \in SeqsUpTo(EmbeddingRows, MaxChunks)}
StreamPairs ==
    (SeqsUpTo(HeadingRows, MaxChunks) \X SeqsUpTo(HeadingRows, MaxChunks))
        \cup (SeqsUpTo(IntentRows, MaxChunks) \X SeqsUpTo(IntentRows, MaxChunks))
        \cup (EmbeddedStreams \X EmbeddedStreams)

\* the four dimension calls of compare_documents on the chunks of two versions
compare_dimensions ==
    /\ report = <<>>
    /\ report' = <<DimensionReport(stream_a, stream_b, embedding_service)>>
    /\ UNCHANGED <<stream_a, stream_b>>
    /\ UNCHANGED <<diff_vars, score_vars, metric_vars, align_vars, service_vars,
                   analysis_vars, chunker_vars>>

InitDimensions ==
    /\ \E pair \in StreamPairs : stream_a = pair[1] /\ stream_b = pair[2]
    /\ report = <<>>
    /\ documents = <<>> /\ chunks = <<>> /\ comparisons = <<>>
    /\ llm_service = FALSE
    /\ embedding_service \in
           IF <<stream_a, stream_b>> \in EmbeddedStreams \X EmbeddedStreams
           THEN BOOLEAN ELSE {TRUE}
    /\ response = NoResponse /\ calls = 0 /\ computations = 0
    /\ workers = <<>> /\ edits = 0
    /\ IdleDiff /\ IdleScore /\ IdleMetrics /\ IdleAlign
    /\ IdleAnalysis /\ IdleChunker
NextDimensions == compare_dimensions
SpecDimensions == InitDimensions /\ [][NextDimensions]_vars

(* ---- the analyze endpoint and its background task ---- *)
\* background_tasks.add_task(_analyze_document_background, analysis_service,
\* document_id, force_reanalysis): the task runs after the response is sent
BackgroundTask(document_id, force_reanalysis) ==
    [document_id |-> document_id, force_reanalysis |-> force_reanalysis,
     pc |-> "scheduled", result |-> "none"]

\* document.chunks and any(c.intent_label for c in document.chunks)
AlreadyAnalyzed(rows) ==
    \E n \in 1..Len(rows) : rows[n].intent_label \notin {NULL, ""}

\* POST /api/documents/{document_id}/analyze
analyze_endpoint(document_id, force_reanalysis) ==
    /\ edits < MaxEdits
    /\ edits' = edits + 1
    /\ IF document_id \notin DOMAIN documents
       THEN /\ answer' = "Document not found"
            /\ UNCHANGED <<status, background_tasks>>
       ELSE IF status[document_id] = "analyzing"
       THEN /\ answer' = "Analysis already in progress"
            /\ UNCHANGED <<status, background_tasks>>
       ELSE /\ background_tasks' =
                   Append(background_tasks,
                          BackgroundTask(document_id, force_reanalysis))
            /\ status' = [status EXCEPT ![document_id] = "analyzing"]
            /\ answer' = "Analysis started"
    /\ UNCHANGED <<documents, chunks, comparisons, llm_service, embedding_service,
                   response, calls, computations, workers>>
    /\ UNCHANGED <<diff_vars, score_vars, metric_vars, align_vars, dimension_vars,
                   chunker_vars>>

\* _analyze_document_background up to the first await of
\* AnalysisService.analyze_document: the document is fetched; an analysed
\* document is left alone unless forced; otherwise the status is set, and
\* the content is read, chunked and embedded (each of which can fail)
background_start(t) ==
    /\ t \in DOMAIN background_tasks
    /\ background_tasks[t].pc = "scheduled"
    /\ LET task == background_tasks[t]
           document_id == task.document_id
       IN  IF document_id \notin DOMAIN documents
           THEN /\ background_tasks' = [background_tasks EXCEPT
                       ![t].pc = "done", ![t].result = "Document not found"]
                /\ UNCHANGED status
           ELSE IF ~task.force_reanalysis /\ AlreadyAnalyzed(chunks[document_id])
           THEN /\ background_tasks' = [background_tasks EXCEPT
                       ![t].pc = "done", ![t].result = "Document already analyzed"]
                /\ UNCHANGED status
           ELSE \/ /\ status' = [status EXCEPT ![document_id] = "analyzing"]
                   /\ background_tasks' = [background_tasks EXCEPT ![t].pc = "awaiting"]
                \/ /\ status' = [status EXCEPT ![document_id] = "error"]
                   /\ background_tasks' = [background_tasks EXCEPT
                          ![t].pc = "done", ![t].result = "error"]
    /\ UNCHANGED <<documents, chunks, comparisons, llm_service, embedding_service,
                   response, calls, computations, workers, edits, answer>>
    /\ UNCHANGED <<diff_vars, score_vars, metric_vars, align_vars, dimension_vars,
                   chunker_vars>>

\* the rest of AnalysisService.analyze_document: the chunks are analysed and
\* saved, the index is built, the document is synthesized and marked indexed;
\* an exception before or after _save_chunks_to_db marks it as error
background_finish(t) ==
    /\ t \in DOMAIN background_tasks
    /\ background_tasks[t].pc = "awaiting"
    /\ LET document_id == background_tasks[t].document_id
       IN  \E analysis \in Analyses(documents[document_id].content) :
               \/ /\ chunks' = [chunks EXCEPT ![document_id] = analysis]
                  /\ status' = [status EXCEPT ![document_id] = "indexed"]
                  /\ background_tasks' = [background_tasks EXCEPT
                         ![t].pc = "done", ![t].result = "success"]
               \/ /\ chunks' \in {chunks, [chunks EXCEPT ![document_id] = analysis]}
                  /\ status' = [status EXCEPT ![document_id] = "error"]
                  /\ background_tasks' = [background_tasks EXCEPT
                         ![t].pc = "done", ![t].result = "error"]
    /\ UNCHANGED <<documents, comparisons, llm_service, embedding_service,
                   response, calls, computations, workers, edits, answer>>
    /\ UNCHANGED <<diff_vars, score_vars, metric_vars, align_vars, dimension_vars,
                   chunker_vars>>

\* two versions of one slug are uploaded; an analysed one is indexed, the
\* other is as uploaded or its analysis at upload failed
InitAnalysis ==
    /\ documents = [i \in {1, 2} |->
                       IF i = 1 THEN DocumentRow("s1", 1, "x")
                       ELSE DocumentRow("s1", 2, "y")]
    /\ chunks \in {c \in [{1, 2} -> {<<>>} \cup Analyses("x") \cup Analyses("y")] :
                       \A i \in {1, 2} :
                           c[i] \in {<<>>} \cup Analyses(documents[i].content)}
    /\ status \in {s \in [{1, 2} -> {"uploaded", "indexed", "error"}] :
                       \A i \in {1, 2} : (s[i] = "indexed") <=> (chunks[i] # <<>>)}
    /\ background_tasks = <<>>
    /\ answer = "none"
    /\ comparisons = <<>>
    /\ llm_service = TRUE
    /\ embedding_service = TRUE
    /\ response = NoResponse
    /\ calls = 0
    /\ computations = 0
    /\ workers = <<>>
    /\ edits = 0
    /\ IdleDiff /\ IdleScore /\ IdleMetrics /\ IdleAlign /\ IdleDimensions
    /\ IdleChunker
NextAnalysis ==
    \/ \E document_id \in DocumentIds, force_reanalysis \in BOOLEAN :
           analyze_endpoint(document_id, force_reanalysis)
    \/ \E t \in 1..MaxEdits : background_start(t)
    \/ \E t \in 1..MaxEdits : background_finish(t)
SpecAnalysis == InitAnalysis /\ [][NextAnalysis]_vars
\* the event loop runs every scheduled task and resumes every awaiting one
FairAnalysis ==
    /\ SpecAnalysis
    /\ \A t \in 1..MaxEdits : WF_vars(background_start(t)) /\ WF_vars(background_finish(t))

(* ---- RollingChunker.chunk_text ---- *)
SentenceEnd == {".", "!", "?"}
search_radius == 50      \* the boundary is searched within 50 characters of the target

\* Python slice s[lo:hi] for any 0 <= lo and any hi: empty if hi <= lo
SliceAny(s, lo, hi) ==
    IF Min2(hi, Len(s)) <= Max2(lo, 0) THEN <<>>
    ELSE SubSeq(s, Max2(lo, 0) + 1, Min2(hi, Len(s)))

\* len(tokenize_simple(text)): the number of maximal runs of non-whitespace
tokenize_simple(s) ==
    Cardinality({i \in 1..Len(s) :
                    s[i] \notin Whitespace /\ (i = 1 \/ s[i - 1] \in Whitespace)})

\* s.strip(): from the first to the last character that is not whitespace
StripText(s) ==
    LET solid == {i \in 1..Len(s) : s[i] \notin Whitespace}
    IN  IF solid = {} THEN <<>> ELSE SubSeq(s, SetMin(solid), SetMax(solid))

\* m.end() for the matches of [.!?]+\s+ that finditer finds in s: a maximal
\* run of sentence ends followed by whitespace, up to the end of the
\* whitespace run
SentenceMatchEnds(s) ==
    {e \in 2..Len(s) :
        /\ s[e] \in Whitespace
        /\ e = Len(s) \/ s[e + 1] \notin Whitespace
        /\ \E q \in 1..(e - 1) :
               /\ s[q] \in SentenceEnd
               /\ \A k \in (q + 1)..e : s[k] \in Whitespace}

\* s.rfind(c, lo, hi): the highest index in [lo, hi) holding c, or -1
RFind(s, c, lo, hi) ==
    LET found == {i \in lo..(hi - 1) : s[i + 1] = c}
    IN  IF found = {} THEN -1 ELSE SetMax(found)

\* min(sentence_matches, key=...): the first of the matches closest to the target
ClosestEnd(ends, target_in_search) ==
    SetMin({e \in ends : \A other \in ends :
                Abs(e - target_in_search) <= Abs(other - target_in_search)})

\* the split point once the sentence ends, the last newline and the last
\* blank of the search window are known
SplitAtBoundary(ends, para_pos, word_pos, target_position, search_start) ==
    IF ends # {}
    THEN search_start + ClosestEnd(ends, target_position - search_start)
    ELSE IF para_pos > search_start THEN para_pos + 1
    ELSE IF word_pos > search_start THEN word_pos + 1
    ELSE target_position

SplitInWindow(s, target_position, search_start, search_end) ==
    SplitAtBoundary(SentenceMatchEnds(SliceAny(s, search_start, search_end)),
                    RFind(s, "\n", search_start, search_end),
                    RFind(s, " ", search_start, search_end),
                    target_position, search_start)

find_best_split_point(s, target_position, preserve) ==
    IF ~preserve \/ target_position >= Len(s)
    THEN Min2(target_position, Len(s))
    ELSE SplitInWindow(s, target_position,
                       Max2(0, target_position - search_radius),
                       Min2(Len(s), target_position + search_radius))

\* int(size * chars_per_token) with chars_per_token = len(text) / max(len(tokens), 1);
\* for the sizes and texts of the model the float product rounds to this floor
CharsFor(size, s) == (size * Len(s)) \div Max2(tokenize_simple(s), 1)

\* a variant of the next start position that trusts the overlap
NextStartByOverlap(end_pos, overlap_chars, start) == end_pos - overlap_chars

\* the next start position: back by the overlap, but at least one forward
NextStart(end_pos, overlap_chars, start) ==
    IF end_pos - overlap_chars <= start THEN start + 1 ELSE end_pos - overlap_chars

\* the dictionary chunk_text appends for a non-empty chunk
ChunkData(chunk_text, start, end_pos, index) ==
    [text |-> chunk_text, start |-> start, end |-> end_pos, chunk_index |-> index,
     token_count |-> tokenize_simple(chunk_text), char_count |-> Len(chunk_text)]

\* RollingChunker(size, overlap_size, preserve).chunk_text(s) up to the loop:
\* nothing to do for a blank text
chunk_text(s, size, overlap_size, preserve) ==
    /\ chunking = "idle"
    /\ full_text' = s
    /\ chunk_size' = size
    /\ overlap' = overlap_size
    /\ preserve_boundaries' = preserve
    /\ chunking' = IF StripText(s) = <<>> THEN "returned" ELSE "loop"
    /\ UNCHANGED <<start_pos, chunk_index, emitted>>
    /\ UNCHANGED <<diff_vars, score_vars, metric_vars, align_vars, service_vars,
                   dimension_vars, analysis_vars>>

\* the end position of the chunk that starts at start
EndPos(s, start, chunk_chars, preserve) ==
    IF start + chunk_chars < Len(s)
    THEN find_best_split_point(s, start + chunk_chars, preserve)
    ELSE Len(s)

\* one iteration of the while loop of chunk_text
chunk_iteration ==
    /\ chunking = "loop"
    /\ \E chunk_chars \in {CharsFor(chunk_size, full_text)},
          overlap_chars \in {CharsFor(overlap, full_text)} :
       \E end_pos \in {EndPos(full_text, start_pos, chunk_chars, preserve_boundaries)} :
       \E stripped \in {StripText(SliceAny(full_text, start_pos, end_pos))},
          next_start \in {NextStart(end_pos, overlap_chars, start_pos)} :
           /\ IF stripped # <<>>
              THEN /\ emitted' = Append(emitted, ChunkData(stripped, start_pos,
                                                           end_pos, chunk_index))
                   /\ chunk_index' = chunk_index + 1
              ELSE UNCHANGED <<emitted, chunk_index>>
           /\ start_pos' = next_start
           /\ chunking' = IF next_start < Len(full_text) THEN "loop" ELSE "returned"
    /\ UNCHANGED <<full_text, chunk_size, overlap, preserve_boundaries>>
    /\ UNCHANGED <<diff_vars, score_vars, metric_vars, align_vars, service_vars,
                   dimension_vars, analysis_vars>>

ChunkerChars == {"a", " ", ".", "\n"}
InitChunker ==
    /\ IdleChunker
    /\ IdleDiff /\ IdleScore /\ IdleMetrics /\ IdleAlign /\ IdleService
    /\ IdleDimensions /\ IdleAnalysis
NextChunker ==
    \/ /\ chunking = "idle"
       /\ \E s \in SeqsUpTo(ChunkerChars, MaxChunkText), size \in 1..MaxChunkSize,
             overlap_size \in 0..MaxOverlap, preserve \in BOOLEAN :
              chunk_text(s, size, overlap_size, preserve)
    \/ chunk_iteration
SpecChunker == InitChunker /\ [][NextChunker]_vars
\* a call that has entered the loop runs on: nothing in chunk_text waits
FairChunker == SpecChunker /\ WF_vars(chunk_iteration)

(***************************************************************************)
(* Properties                                                              *)
(***************************************************************************)

(* ---- replaying an edit script ---- *)
\* the 0-based source indices the operations take out of the source
RemovedIndices(operations) ==
    UNION {op.source_start .. (op.source_end - 1) :
              op \in {o \in Range(operations) :
                         o.operation \in {"delete", "replace", "move"}}}

\* <<target index, unit>> for every unit the operations put into the target
PlacedUnits(operations) ==
    UNION {{<<op.target_start + k - 1, op.target_content[k]>> :
               k \in 1..Len(op.target_content)} :
              op \in {o \in Range(operations) :
                         o.operation \in {"add", "replace", "move"}}}

\* the units of the source no operation removes, in order
KeptUnits(source_units, operations) ==
    LET kept == SelectSeq([n \in 1..Len(source_units) |-> n - 1],
                          LAMBDA i : i \notin RemovedIndices(operations))
    IN  [n \in 1..Len(kept) |-> source_units[kept[n] + 1]]

\* the replay is defined when the operations place one unit per target index
\* and inside the replayed sequence
Replayable(source_units, operations) ==
    LET placed == PlacedUnits(operations)
        positions == {p[1] : p \in placed}
        length == Len(KeptUnits(source_units, operations)) + Cardinality(positions)
    IN  /\ Cardinality(placed) = Cardinality(positions)
        /\ positions \subseteq 0..(length - 1)

\* the sequence the replay builds: the placed units at their target indices,
\* the kept units of the source, in order, everywhere else
Replay(source_units, operations) ==
    LET placed == PlacedUnits(operations)
        positions == {p[1] : p \in placed}
        kept == KeptUnits(source_units, operations)
        length == Len(kept) + Cardinality(positions)
    IN  [n \in 1..length |->
            IF n - 1 \in positions
            THEN (CHOOSE p \in placed : p[1] = n - 1)[2]
            ELSE kept[n - Cardinality({q \in positions : q < n - 1})]]

\* C1: edit-script soundness: for every pair of token sequences and each of the
\* three algorithms, replaying the operations compare_texts returns against the
\* source units reconstructs the target units exactly.
C1_EditScriptSound ==
    result.returned =>
        /\ Replayable(result.source_units, result.operations)
        /\ Replay(result.source_units, result.operations) = result.target_units

\* the same property for the algorithms built on the matching blocks
SyntacticAndHybridSound ==
    (result.returned /\ algorithm \in {"syntactic", "hybrid"}) =>
        /\ Replayable(result.source_units, result.operations)
        /\ Replay(result.source_units, result.operations) = result.target_units

\* C2: comparing a text with itself, at every granularity and with every
\* algorithm, returns no operation and similarity_ratio 1.0.
C2_SelfComparisonIsEmpty ==
    result.returned =>
        /\ result.operations = <<>>
        /\ RatEq(result.similarity_ratio, One)

\* a text of at least two units has been compared with itself
C2_Witness ==
    /\ result.returned
    /\ source = target
    /\ Len(result.source_units) >= 2
    /\ algorithm = "semantic"

\* C3: the aligner is one-to-one: no chunk of B and no chunk of A is in more
\* than one alignment, so there are at most min(|A|, |B|) alignments.
C3_AlignmentOneToOne ==
    alignments # <<>> =>
        LET found == alignments[1]
        IN  /\ \A m, n \in 1..Len(found) :
                   m # n => /\ found[m].chunk_b_index # found[n].chunk_b_index
                            /\ found[m].chunk_a_index # found[n].chunk_a_index
            /\ Len(found) <= Min2(Len(embeddings_a), Len(embeddings_b))

\* two chunks of A with the same embedding, hence the same best chunk of B,
\* have both been aligned
C3_Witness ==
    /\ alignments # <<>>
    /\ Len(embeddings_a) >= 2
    /\ embeddings_a[1] = embeddings_a[2]
    /\ Len(alignments[1]) >= 2

(* ---- the metric synthesizer, stated on exact numbers ---- *)
RatLeq(p, q) == ~RatLess(q, p)
RatAbs(r) == <<Abs(r[1]), r[2]>>
Within(p, q, eps) == RatLeq(RatAbs(RatSub(p, q)), eps)

\* the number a dimension stands for: 0 when it reports no statistic
DimensionNumber(d) == IF d.type = "missing" THEN Zero ELSE d.val

\* clamp(0.4*text + 0.2*structural + 0.3*semantic + 0.1*intent, 0, 1)
ExactOverall ==
    LET weighted ==
            RatAdd(RatAdd(RatAdd(RatMul(DimensionNumber(dimensions[1]), <<4, 10>>),
                                 RatMul(DimensionNumber(dimensions[2]), <<2, 10>>)),
                          RatMul(DimensionNumber(dimensions[3]), <<3, 10>>)),
                   RatMul(DimensionNumber(dimensions[4]), <<1, 10>>))
    IN  RatMax(Zero, RatMin(One, weighted))

\* C4: overall_similarity is within [0, 1] whatever the four dimension results
\* hold; a dimension with no statistic counts as 0 with its fixed weight, the
\* weights of the others unchanged (to the three decimals of the result).
C4_OverallInUnitInterval ==
    metrics # <<>> =>
        LET o == metrics[1]["overall_similarity"]
        IN  /\ IsFinite(o)
            /\ RatLeq(Zero, o.val) /\ RatLeq(o.val, One)
            /\ ((\A n \in 1..4 : dimensions[n].type = "missing" \/ IsFinite(dimensions[n]))
                   => Within(o.val, ExactOverall, <<1, 2000>>))

\* the text dimension reports no statistic, the three others report 1.0: the
\* overall similarity is 0.6, not the 1.0 of renormalised weights
C4_Witness ==
    /\ metrics # <<>>
    /\ dimensions[1] = Missing
    /\ \A n \in 2..4 : dimensions[n] = Float(One)
    /\ metrics[1]["overall_similarity"] = Float(<<6, 10>>)

\* C5 as stated: overall_similarity is the clamped weighted sum, and
\* change_intensity is 1 - overall_similarity, so that the two sum to 1.
C5_ExactComplement ==
    (metrics # <<>> /\ \A n \in 1..4 : IsFinite(dimensions[n])) =>
        /\ RatEq(metrics[1]["overall_similarity"].val, ExactOverall)
        /\ RatEq(metrics[1]["change_intensity"].val,
                 RatSub(One, metrics[1]["overall_similarity"].val))

\* C5, amended: for finite dimension values overall_similarity is the clamped
\* weighted sum rounded to three decimals, change_intensity is 1 minus the
\* clamped weighted sum rounded to three decimals, and the two sum to 1 within
\* 0.001.
C5_RoundedComplement ==
    (metrics # <<>> /\ \A n \in 1..4 : IsFinite(dimensions[n])) =>
        LET o == metrics[1]["overall_similarity"]
            c == metrics[1]["change_intensity"]
        IN  /\ IsFinite(o) /\ IsFinite(c)
            /\ 1000 % o.val[2] = 0 /\ 1000 % c.val[2] = 0
            /\ Within(o.val, ExactOverall, <<1, 2000>>)
            /\ Within(c.val, RatSub(One, ExactOverall), <<1, 2000>>)
            /\ Within(RatAdd(o.val, c.val), One, <<1, 1000>>)

\* only the intent dimension is non-zero, 0.005: the weighted sum 0.0005 is
\* stored as 0.001 and its complement 0.9995 as 1.0
C5_Witness ==
    /\ metrics # <<>>
    /\ \A n \in 1..3 : dimensions[n] = Float(Zero)
    /\ dimensions[4] = Float(<<5, 1000>>)
    /\ metrics[1]["overall_similarity"] = Float(<<1, 1000>>)
    /\ metrics[1]["change_intensity"] = Float(One)

\* C6: change_significance is monotonically non-decreasing in change_intensity
\* on [0, 1]: the score of a smaller intensity never exceeds the score of a
\* larger one, also across the band boundaries 0.1, 0.3 and 0.6.  (Equal
\* intensities give equal scores: the function is deterministic.)
C6_SignificanceMonotone ==
    (Len(score) = 2 /\ RatLess(intensity[1].val, intensity[2].val)) =>
        RatLeq(score[1].val, score[2].val)

\* the scores of 0.099 and of 0.1, on the two sides of the first boundary
C6_Witness ==
    /\ Len(score) = 2
    /\ intensity[1] = Float(<<99, 1000>>)
    /\ intensity[2] = Float(<<1, 10>>)
    /\ RatLess(score[1].val, score[2].val)

\* the linear map of each band onto its range
LinearScore(x) ==
    IF RatLess(x, <<1, 10>>) THEN RatMul(x, <<10, 1>>)
    ELSE IF RatLess(x, <<3, 10>>)
    THEN RatAdd(One, RatMul(RatSub(x, <<1, 10>>), <<5, 1>>))
    ELSE IF RatLess(x, <<6, 10>>)
    THEN RatAdd(<<2, 1>>, RatMul(RatSub(x, <<3, 10>>), <<10, 3>>))
    ELSE RatAdd(<<3, 1>>, RatMul(RatSub(x, <<6, 10>>), <<5, 2>>))

\* the index of the band of an intensity: 0, 1, 2 or 3
BandOf(x) ==
    IF RatLess(x, <<1, 10>>) THEN 0
    ELSE IF RatLess(x, <<3, 10>>) THEN 1
    ELSE IF RatLess(x, <<6, 10>>) THEN 2
    ELSE 3

\* C7 as stated: the score of an intensity of [0, 0.1) is in [0, 1), of
\* [0.1, 0.3) in [1, 2), of [0.3, 0.6) in [2, 3) and of [0.6, 1] in [3, 4].
C7_HalfOpenBands ==
    \A n \in 1..Len(score) :
        LET x == intensity[n].val
            s == score[n].val
        IN  /\ RatLeq(<<BandOf(x), 1>>, s)
            /\ IF BandOf(x) = 3 THEN RatLeq(s, <<4, 1>>)
               ELSE RatLess(s, <<BandOf(x) + 1, 1>>)

\* C7, amended: the score is rounded to two decimals, so the bands are closed:
\* the score of an intensity of band k is in [k, k + 1], within 0.01 of the
\* linear map of the band onto its range, 0 at intensity 0 and 4 at
\* intensity 1.
C7_ClosedBands ==
    \A n \in 1..Len(score) :
        LET x == intensity[n].val
            s == score[n].val
        IN  /\ RatLeq(<<BandOf(x), 1>>, s)
            /\ RatLeq(s, <<BandOf(x) + 1, 1>>)
            /\ Within(s, LinearScore(x), <<1, 100>>)
            /\ (x = Zero => s = Zero)
            /\ (x = One => s = <<4, 1>>)

\* the intensity 0.599 of the third band has the score 3.0
C7_Witness ==
    /\ Len(score) >= 1
    /\ intensity[1] = Float(<<599, 1000>>)
    /\ score[1] = Float(<<3, 1>>)

\* C8: every field of the synthesized metrics is a finite number, whatever
\* the dimension statistics hold (labels, 'nan', 'inf', None).
C8_MetricsFinite ==
    metrics # <<>> => \A f \in MetricFields : IsFinite(metrics[1][f])

(* ---- the comparison cache ---- *)
\* the rows of the cache for a key
RowsOf(doc_slug, version_a, version_b) ==
    {n \in 1..Len(comparisons) : HasKey(comparisons[n], doc_slug, version_a, version_b)}

\* a call for two existing documents of one slug
ValidRequest(doc_id_a, doc_id_b) ==
    /\ doc_id_a \in DOMAIN documents /\ doc_id_b \in DOMAIN documents
    /\ documents[doc_id_a].slug = documents[doc_id_b].slug

\* a call for a key whose record is stored returns that record with
\* cached = true, computes nothing and leaves the cache as it is
CachedCallServesRecord(doc_id_a, doc_id_b) ==
    LET doc_a == documents[doc_id_a]
        doc_b == documents[doc_id_b]
        rows == RowsOf(doc_a.slug, doc_a.version, doc_b.version)
    IN  (/\ ValidRequest(doc_id_a, doc_id_b)
         /\ rows # {}
         /\ compare_documents(doc_id_a, doc_id_b))
        => /\ response'.kind = "result"
           /\ response'.cached
           /\ HasKey(response', doc_a.slug, doc_a.version, doc_b.version)
           /\ \A f \in MetricFields :
                  response'.metrics[f] =
                      _ensure_numeric(comparisons[SetMin(rows)].metrics_json[f])
           /\ response'.ai_summary = comparisons[SetMin(rows)].llm_summary
           /\ computations' = computations
           /\ comparisons' = comparisons

\* C9: after a successful compare_documents call for a key the cache holds
\* exactly one record for the key, and every following call for the key
\* returns that record with cached = true, without computing a dimension and
\* without changing the stored record.
C9_CacheServesOneRecord ==
    /\ [](response.kind = "result" =>
              Cardinality(RowsOf(response.doc_slug, response.version_a,
                                 response.version_b)) = 1)
    /\ [][\A doc_id_a \in RequestIds, doc_id_b \in RequestIds :
              CachedCallServesRecord(doc_id_a, doc_id_b)]_vars

\* a key was compared afresh once and a later call got the stored record
C9_Witness ==
    /\ response.kind = "result" /\ response.cached
    /\ computations = 1
    /\ Len(comparisons) = 1
    /\ HasKey(comparisons[1], response.doc_slug, response.version_a, response.version_b)
    /\ \A f \in MetricFields : comparisons[1].metrics_json[f] = response.metrics[f]

\* C10: the cache lookup heals itself: a stored record with a non-numeric
\* metric is deleted and never served, so a response marked cached never
\* comes from a key whose stored record has a non-numeric metric.
C10_CorruptRecordNotServed ==
    (response.kind = "result" /\ response.cached) =>
        \A n \in RowsOf(response.doc_slug, response.version_a, response.version_b) :
            \A f \in MetricFields : comparisons[n].metrics_json[f].type = "float"

(* ---- concurrent cache writes ---- *)
\* a record all of whose columns come from one result
WholeRow(row) ==
    /\ row.similarity_score = row.metrics_json["overall_similarity"]
    /\ row.change_score = row.metrics_json["change_intensity"]
    /\ row.metrics_json["similarity_score"] = row.metrics_json["overall_similarity"]
    /\ row.metrics_json["change_score"] = row.metrics_json["change_intensity"]

\* C11: under any interleaving of compare_documents calls in several worker
\* processes, abandoned and failed ones included, the cache holds at most one
\* record per (slug, version A, version B), and every record a reader can
\* see has all its columns from a single computation.
C11_OneWholeRecordPerKey ==
    \A n1 \in 1..Len(comparisons), n2 \in 1..Len(comparisons) :
        /\ WholeRow(comparisons[n1])
        /\ HasKey(comparisons[n2], comparisons[n1].doc_slug,
                  comparisons[n1].version_a, comparisons[n1].version_b) => n1 = n2

(* ---- the cache and the content it was computed from ---- *)
\* the metrics a fresh comparison of the current chunks of two documents gives
FreshMetrics(doc_id_a, doc_id_b) ==
    {[f \in MetricFields |-> _ensure_numeric(m[f])] :
        m \in ComputeMetrics(chunks[doc_id_a], chunks[doc_id_b], embedding_service)}

\* a compare_documents call that returns a cached record
CacheHitStep ==
    /\ calls' = calls + 1
    /\ response'.kind = "result"
    /\ response'.cached

\* C13: whatever compare, re-analysis, delete and upload operations came
\* before, a cache hit for (slug, version A, version B) returns the metrics a
\* fresh comparison of the current chunks of those two versions would give.
C13_CacheHitIsFresh ==
    [][CacheHitStep =>
          \E doc_id_a \in DOMAIN documents, doc_id_b \in DOMAIN documents :
              /\ HasKey(response', documents[doc_id_a].slug,
                        documents[doc_id_a].version, documents[doc_id_b].version)
              /\ response'.metrics \in FreshMetrics(doc_id_a, doc_id_b)]_vars

(* ---- a version compared with itself ---- *)
\* the last call returned a result for a version of a document against itself
SelfCompared ==
    response.kind = "result" /\ response.version_a = response.version_b

\* the chunk rows of the version the last call compared with itself
SelfChunks ==
    LET d == CHOOSE i \in DOMAIN documents :
                 /\ documents[i].slug = response.doc_slug
                 /\ documents[i].version = response.version_a
    IN  chunks[d]

MetricIs(f, r) ==
    response.metrics[f].type = "float" /\ response.metrics[f].cls = "finite"
        /\ RatEq(response.metrics[f].val, r)

EmptyContentAborts(doc_id_a, doc_id_b) ==
    (/\ ValidRequest(doc_id_a, doc_id_b)
     /\ _get_document_content(chunks[doc_id_a]) = <<>>
            \/ _get_document_content(chunks[doc_id_b]) = <<>>
     /\ RowsOf(documents[doc_id_a].slug, documents[doc_id_a].version,
               documents[doc_id_b].version) = {}
     /\ compare_documents(doc_id_a, doc_id_b))
    => /\ response'.kind = "error"
       /\ comparisons' = comparisons

\* C14: when a document has missing or empty content, compare_documents
\* aborts with an error, returns no metrics and writes no cache record.
C14_EmptyContentIsFatal ==
    [][\A doc_id_a \in RequestIds, doc_id_b \in RequestIds :
          EmptyContentAborts(doc_id_a, doc_id_b)]_vars

(* ---- degraded input ---- *)
\* a side whose chunks have no embeddings: embed_texts gave zero vectors
NoEmbeddings(rows) ==
    rows # <<>> /\ \A n \in 1..Len(rows) : rows[n].embedding = <<0, 0>>

DegradedInput ==
    /\ stream_a # <<>> /\ stream_b # <<>>
    /\ ~embedding_service \/ NoEmbeddings(stream_a) \/ NoEmbeddings(stream_b)

\* the semantic dimension reports similarity 0 together with a message, the
\* other dimensions are what they are with every embedding at hand
SemanticDegraded(dims) ==
    /\ dims.semantic_diff.semantic_similarity_score = Float(Zero)
    /\ dims.semantic_diff.error # NULL
    /\ dims.text_diff.error = NULL
    /\ dims.text_diff = DimensionReport(stream_a, stream_b, TRUE).text_diff
    /\ dims.structure_diff = DimensionReport(stream_a, stream_b, TRUE).structure_diff
    /\ dims.intent_diff = DimensionReport(stream_a, stream_b, TRUE).intent_diff

\* C15: when the embedding service is unavailable or a side has no embeddings,
\* the comparison of two non-empty versions still yields all four dimensions:
\* the semantic one reports similarity 0 together with a warning, and the
\* text, structure and intent dimensions are computed as usual.
C15_DegradedInputIsNonFatal ==
    (report # <<>> /\ DegradedInput) => SemanticDegraded(report[1])

(* ---- the narrative summarizer ---- *)
\* a call for two analysed versions of one slug that finds no stored record
FreshCall(doc_id_a, doc_id_b) ==
    /\ ValidRequest(doc_id_a, doc_id_b)
    /\ _get_document_content(chunks[doc_id_a]) # <<>>
    /\ _get_document_content(chunks[doc_id_b]) # <<>>
    /\ RowsOf(documents[doc_id_a].slug, documents[doc_id_a].version,
              documents[doc_id_b].version) = {}
    /\ compare_documents(doc_id_a, doc_id_b)

\* the response holds the complete numeric metrics of a fresh comparison and
\* the cache holds the same metrics for the key
CompleteAndStored(doc_id_a, doc_id_b) ==
    /\ response'.kind = "result"
    /\ ~response'.cached
    /\ response'.metrics \in FreshMetrics(doc_id_a, doc_id_b)
    /\ \A f \in MetricFields : IsFinite(response'.metrics[f])
    /\ \E n \in 1..Len(comparisons') :
           /\ HasKey(comparisons'[n], documents[doc_id_a].slug,
                     documents[doc_id_a].version, documents[doc_id_b].version)
           /\ comparisons'[n].metrics_json = response'.metrics
           /\ comparisons'[n].llm_summary = response'.ai_summary

\* C16: a fresh comparison returns and caches the complete numeric metrics
\* whatever becomes of the narrative summary: without a summarizer the summary
\* is empty, with one it is the generated summary or, after a failure, the
\* fallback summary; change_significance stays the number computed from the
\* metrics, never a label.
C16_SummaryNeverBlocksMetrics ==
    [][\A doc_id_a \in RequestIds, doc_id_b \in RequestIds :
          FreshCall(doc_id_a, doc_id_b) =>
              /\ CompleteAndStored(doc_id_a, doc_id_b)
              /\ response'.metrics["change_significance"].type = "float"
              /\ IF llm_service
                 THEN response'.ai_summary \in
                          {_fallback_comparison_summary, "low", "medium", "high"}
                 ELSE response'.ai_summary = "none"]_vars

\* the summarizer failed: the fallback summary came back with finite metrics
\* and both are stored
C16_Witness ==
    /\ llm_service
    /\ response.kind = "result" /\ ~response.cached
    /\ response.ai_summary = _fallback_comparison_summary
    /\ \A f \in MetricFields : IsFinite(response.metrics[f])
    /\ \E n \in 1..Len(comparisons) :
           /\ comparisons[n].llm_summary = _fallback_comparison_summary
           /\ comparisons[n].metrics_json = response.metrics

(* ---- structural similarity ---- *)
\* the headings the sequence diff of two heading lists leaves unchanged: the
\* lengths of its 'equal' operations
UnchangedHeadings(headings_a, headings_b) ==
    LET equal == SelectSeq(get_opcodes(headings_a, headings_b),
                           LAMBDA op : op[1] = "equal")
    IN  SumSeq([n \in 1..Len(equal) |-> equal[n][3] - equal[n][2]])

\* the similarity of two heading lists when the unchanged headings are
\* counted against the weight given
SimilarityOver(headings_a, headings_b, unchanged, weight) ==
    IF headings_a = <<>> /\ headings_b = <<>> THEN Float(One)
    ELSE IF headings_a = <<>> \/ headings_b = <<>> THEN Float(Zero)
    ELSE Float(<<unchanged, weight>>)

\* C17 as stated: structural similarity is |unchanged| / max(|A|, |B|, 1),
\* 1.0 when both sides have no heading and 0.0 when exactly one side has none.
C17_SimilarityOverLongerSide ==
    report # <<>> =>
        report[1].structure_diff.structural_similarity =
            SimilarityOver(report[1].structure_diff.headings_a,
                           report[1].structure_diff.headings_b,
                           UnchangedHeadings(report[1].structure_diff.headings_a,
                                             report[1].structure_diff.headings_b),
                           Max2(Max2(Len(report[1].structure_diff.headings_a),
                                     Len(report[1].structure_diff.headings_b)), 1))

\* C17 amended: structural similarity is 2 * |unchanged| / (|A| + |B|), the
\* unchanged headings counted against both sides; it is 1.0 when both sides
\* have no heading and 0.0 when exactly one side has none.
C17_SimilarityOverBothSides ==
    report # <<>> =>
        report[1].structure_diff.structural_similarity =
            SimilarityOver(report[1].structure_diff.headings_a,
                           report[1].structure_diff.headings_b,
                           2 * UnchangedHeadings(report[1].structure_diff.headings_a,
                                                 report[1].structure_diff.headings_b),
                           Len(report[1].structure_diff.headings_a)
                               + Len(report[1].structure_diff.headings_b))

\* one heading against two, the first unchanged: similarity 2/3, not 1/2
C17_Witness ==
    /\ report # <<>>
    /\ report[1].structure_diff.headings_a = <<"H1">>
    /\ report[1].structure_diff.headings_b = <<"H1", "H2">>
    /\ report[1].structure_diff.structural_similarity = Float(<<2, 3>>)

(* ---- symmetry of the structural diff ---- *)
\* the unchanged headings a structural similarity stands for
UnchangedIn(structure_diff) ==
    RatMul(structure_diff.structural_similarity.val,
           <<Len(structure_diff.headings_a) + Len(structure_diff.headings_b), 2>>)

\* C18: the structural diff is symmetric under swapping the two versions: the
\* unchanged count and the structural similarity of (A, B) equal those of
\* (B, A), and the headings of the two sides change places.
C18_StructuralDiffSymmetric ==
    report # <<>> =>
        /\ report[1].structure_diff.structural_similarity =
               DimensionReport(stream_b, stream_a,
                               embedding_service).structure_diff.structural_similarity
        /\ UnchangedIn(report[1].structure_diff) =
               UnchangedIn(DimensionReport(stream_b, stream_a,
                                           embedding_service).structure_diff)
        /\ report[1].structure_diff.headings_a =
               DimensionReport(stream_b, stream_a,
                               embedding_service).structure_diff.headings_b

(* ---- intent similarity ---- *)
\* the number of chunks a distribution counts
RECURSIVE CountTotal(_, _)
CountTotal(dist, intents) ==
    IF intents = {} THEN 0
    ELSE LET intent == CHOOSE x \in intents : TRUE
         IN  dist[intent] + CountTotal(dist, intents \ {intent})

\* the sum over the labels given of min(proportion_a, proportion_b)
RECURSIVE HistogramIntersection(_, _, _)
HistogramIntersection(dist_a, dist_b, intents) ==
    IF intents = {} THEN Zero
    ELSE LET intent == CHOOSE x \in intents : TRUE
         IN  RatAdd(RatMin(<<dist_a[intent], CountTotal(dist_a, DOMAIN dist_a)>>,
                           <<dist_b[intent], CountTotal(dist_b, DOMAIN dist_b)>>),
                    HistogramIntersection(dist_a, dist_b, intents \ {intent}))

\* both versions have chunks and every chunk has an intent label
AllLabelled ==
    /\ stream_a # <<>> /\ stream_b # <<>>
    /\ \A n \in 1..Len(stream_a) : stream_a[n].intent_label # NULL
    /\ \A n \in 1..Len(stream_b) : stream_b[n].intent_label # NULL

\* C19: intent similarity is the histogram intersection of the two
\* proportional label distributions, the sum over the labels of
\* min(proportion_A(label), proportion_B(label)), also for sides of different
\* sizes; so it is 1.0 exactly when the proportions are identical and 0.0
\* exactly when the label sets are disjoint.
C19_IntentHistogramIntersection ==
    (report # <<>> /\ AllLabelled) =>
        report[1].intent_diff.intent_similarity =
            Float(HistogramIntersection(
                      report[1].intent_diff.intent_distribution_a,
                      report[1].intent_diff.intent_distribution_b,
                      DOMAIN report[1].intent_diff.intent_distribution_a
                          \cap DOMAIN report[1].intent_diff.intent_distribution_b))

(* ---- chunks without an intent label ---- *)
\* every chunk of the stream is counted, the ones without a label under
\* "unknown"
CountsEveryChunk(rows, dist) ==
    /\ CountTotal(dist, DOMAIN dist) = Len(rows)
    /\ (\E n \in 1..Len(rows) : rows[n].intent_label = NULL) =>
           /\ "unknown" \in DOMAIN dist
           /\ dist["unknown"] >=
                  Cardinality({n \in 1..Len(rows) : rows[n].intent_label = NULL})

\* C20: in the intent comparison a chunk whose intent label is absent is
\* counted under the label "unknown" in the distribution of its version, it is
\* not dropped: the counts of each distribution sum to the number of chunks of
\* that version.
C20_AbsentLabelIsUnknown ==
    (report # <<>> /\ stream_a # <<>> /\ stream_b # <<>>) =>
        /\ CountsEveryChunk(stream_a, report[1].intent_diff.intent_distribution_a)
        /\ CountsEveryChunk(stream_b, report[1].intent_diff.intent_distribution_b)

(* ---- the similarity ratio of a text diff ---- *)
\* the units the operations of the kinds given change: the larger of the
\* source and the target length of each
ChangedUnits(operations, kinds) ==
    LET counted == SelectSeq(operations, LAMBDA op : op.operation \in kinds)
    IN  SumSeq([n \in 1..Len(counted) |->
                   Max2(Len(counted[n].source_content), Len(counted[n].target_content))])

\* ratio = 1 - changed / max(|A|, |B|), and 0 <= ratio <= 1
RatioIs(res, changed) ==
    /\ RatEq(res.similarity_ratio,
             RatSub(One, <<changed, Max2(Max2(Len(res.source_units),
                                              Len(res.target_units)), 1)>>))
    /\ ~RatLess(res.similarity_ratio, Zero)
    /\ ~RatLess(One, res.similarity_ratio)

\* C21 as stated: the similarity ratio of a text diff is
\* 1 - (changed units / max(|A|, |B|)), the changed units being the sum over
\* the Add, Delete, Replace and Move operations of max(source length, target
\* length), and it lies in [0, 1].
C21_RatioCountsEveryChange ==
    (result.returned /\ (result.source_units # <<>> \/ result.target_units # <<>>)) =>
        RatioIs(result, ChangedUnits(result.operations,
                                     {"add", "delete", "replace", "move"}))

\* C21 amended: the similarity ratio of a text diff is
\* max(0, 1 - (changed units / max(|A|, |B|, 1))), the changed units being the
\* sum over the Add, Delete and Replace operations of max(source length,
\* target length); Move operations are not counted.  It lies in [0, 1].
C21_RatioCountsAddDeleteReplace ==
    (result.returned /\ (result.source_units # <<>> \/ result.target_units # <<>>)) =>
        /\ RatEq(result.similarity_ratio,
                 RatMax(Zero,
                        RatSub(One,
                               <<ChangedUnits(result.operations,
                                              {"add", "delete", "replace"}),
                                 Max2(Max2(Len(result.source_units),
                                           Len(result.target_units)), 1)>>)))
        /\ ~RatLess(result.similarity_ratio, Zero)
        /\ ~RatLess(One, result.similarity_ratio)

\* a diff whose only operation is a Move: two different texts with ratio 1
C21_Witness ==
    /\ result.returned
    /\ result.source_units # result.target_units
    /\ \E n \in 1..Len(result.operations) : result.operations[n].operation = "move"
    /\ RatEq(result.similarity_ratio, One)

(* ---- the greedy matching rule ---- *)
\* the chunks of B used by the alignments of the chunks of A before index i
UsedBefore(found, i) ==
    {found[n].chunk_b_index : n \in {k \in 1..Len(found) : found[k].chunk_a_index < i}}

\* the chunks of B still free when the chunk i of A is processed
FreeFor(found, i) == (0..(Len(embeddings_b) - 1)) \ UsedBefore(found, i)

\* j is the earliest free chunk of B of maximum similarity to the chunk i of A
EarliestBest(found, i, j) ==
    /\ j \in FreeFor(found, i)
    /\ \A k \in FreeFor(found, i) :
           /\ ~RatLess(CosineSimilarity(embeddings_a[i + 1], embeddings_b[j + 1]),
                       CosineSimilarity(embeddings_a[i + 1], embeddings_b[k + 1]))
           /\ RatEq(CosineSimilarity(embeddings_a[i + 1], embeddings_b[k + 1]),
                    CosineSimilarity(embeddings_a[i + 1], embeddings_b[j + 1]))
                  => j <= k

\* the chunk i of A is aligned exactly when its earliest best free chunk of B
\* reaches the threshold, and then to that chunk with that similarity
GreedyAt(found, i) ==
    LET mine == {n \in 1..Len(found) : found[n].chunk_a_index = i}
        reaching == {j \in FreeFor(found, i) :
                        /\ EarliestBest(found, i, j)
                        /\ ~RatLess(CosineSimilarity(embeddings_a[i + 1],
                                                     embeddings_b[j + 1]),
                                    <<3, 10>>)}
    IN  /\ Cardinality(mine) = Cardinality(reaching)
        /\ \A n \in mine :
               /\ found[n].chunk_b_index \in reaching
               /\ found[n].similarity =
                      CosineSimilarity(embeddings_a[i + 1],
                                       embeddings_b[found[n].chunk_b_index + 1])

\* C22: the chunks of A are processed in index order; each is aligned to the
\* not yet used chunk of B of maximum dot-product similarity, the earliest one
\* on ties, if and only if that maximum is at least the threshold 0.3;
\* otherwise it stays unmatched and no chunk of B is marked used.
C22_GreedyMatchingRule ==
    alignments # <<>> =>
        /\ \A i \in 0..(Len(embeddings_a) - 1) : GreedyAt(alignments[1], i)
        /\ \A m, n \in 1..Len(alignments[1]) :
               m < n => alignments[1][m].chunk_a_index < alignments[1][n].chunk_a_index
        /\ \A n \in 1..Len(alignments[1]) :
               alignments[1][n].chunk_a_index \in 0..(Len(embeddings_a) - 1)

\* a tie between two free chunks of B went to the earlier one, and a later
\* chunk of A stayed unmatched below the threshold although a chunk of B was
\* still free
C22_Witness ==
    /\ alignments # <<>>
    /\ Len(embeddings_a) = 3 /\ Len(embeddings_b) = 3
    /\ embeddings_b[1] = embeddings_b[2]
    /\ Len(alignments[1]) = 2
    /\ alignments[1][1].chunk_a_index = 0 /\ alignments[1][1].chunk_b_index = 0
    /\ alignments[1][2].chunk_a_index = 2
    /\ FreeFor(alignments[1], 1) # {}

(* ---- the semantic similarity score ---- *)
\* the alignments recorded for the two streams
RecordedAlignments ==
    IF embedding_service /\ stream_a # <<>> /\ stream_b # <<>>
    THEN _align_chunks_semantically(
             [n \in 1..Len(stream_a) |-> stream_a[n].embedding],
             [n \in 1..Len(stream_b) |-> stream_b[n].embedding])
    ELSE <<>>

\* the arithmetic mean of the similarities of the alignments, 0 for none
MeanSimilarity(found) ==
    IF found = <<>> THEN Zero
    ELSE RatMul(RatSum([n \in 1..Len(found) |-> found[n].similarity]),
                <<1, Len(found)>>)

\* both sides have the same chunks with the same L2-normalized embeddings
IdenticalEmbedded ==
    /\ embedding_service
    /\ stream_a # <<>>
    /\ stream_a = stream_b
    /\ \A n \in 1..Len(stream_a) :
           Dot(stream_a[n].embedding, stream_a[n].embedding) = 10000

SpansWholeSide(operations, kind, units) ==
    /\ Len(operations) = 1
    /\ operations[1].operation = kind
    /\ IF kind = "add"
       THEN /\ operations[1].target_start = 0
            /\ operations[1].target_end = Len(units)
            /\ operations[1].target_content = units
            /\ operations[1].source_content = <<>>
       ELSE /\ operations[1].source_start = 0
            /\ operations[1].source_end = Len(units)
            /\ operations[1].source_content = units
            /\ operations[1].target_content = <<>>

\* C24: the empty-input cases of compare_texts, for every algorithm: two empty
\* texts give similarity 1.0 and no operation; exactly one empty text gives
\* similarity 0.0 and exactly one operation, an Add (A empty) or a Delete
\* (B empty) whose range spans the whole non-empty side.
C24_EmptyInputs ==
    result.returned =>
        /\ (result.source_units = <<>> /\ result.target_units = <<>>) =>
               /\ RatEq(result.similarity_ratio, One)
               /\ result.operations = <<>>
        /\ (result.source_units = <<>> /\ result.target_units # <<>>) =>
               /\ RatEq(result.similarity_ratio, Zero)
               /\ SpansWholeSide(result.operations, "add", result.target_units)
        /\ (result.source_units # <<>> /\ result.target_units = <<>>) =>
               /\ RatEq(result.similarity_ratio, Zero)
               /\ SpansWholeSide(result.operations, "delete", result.source_units)

(* ---- operations do not overlap ---- *)
SourceRange(op) == op.source_start .. (op.source_end - 1)
TargetRange(op) == op.target_start .. (op.target_end - 1)

\* C25: after post-processing the operations compare_texts returns never
\* overlap within one sequence: the source ranges [source_start, source_end)
\* of two distinct operations are disjoint and so are their target ranges
\* [target_start, target_end), for every algorithm, after merging and move
\* detection.
C25_OperationsNeverOverlap ==
    result.returned =>
        \A m, n \in 1..Len(result.operations) :
            m # n =>
                /\ SourceRange(result.operations[m])
                       \cap SourceRange(result.operations[n]) = {}
                /\ TargetRange(result.operations[m])
                       \cap TargetRange(result.operations[n]) = {}

\* a hybrid or semantic diff returned several operations that change units on
\* both sides
C25_Witness ==
    /\ result.returned
    /\ algorithm # "syntactic"
    /\ Len(result.operations) >= 2
    /\ \E m, n \in 1..Len(result.operations) :
           /\ m # n
           /\ SourceRange(result.operations[m]) # {}
           /\ SourceRange(result.operations[n]) # {}
           /\ TargetRange(result.operations[m]) # {}
           /\ TargetRange(result.operations[n]) # {}

(* ---- move detection ---- *)
\* the operations _hybrid_diff hands to _detect_moves for the units compared
BeforeMoves ==
    LET syntactic_ops == _syntactic_diff(result.source_units, result.target_units)
    IN  [n \in 1..Len(syntactic_ops) |-> HybridEnhance(syntactic_ops[n])]

OfKind(operations, kind) == {n \in 1..Len(operations) : operations[n].operation = kind}

\* the move takes the source side of the delete and the target side of the add
MoveOf(move_op, delete_op, add_op) ==
    /\ move_op.source_start = delete_op.source_start
    /\ move_op.source_end = delete_op.source_end
    /\ move_op.source_content = delete_op.source_content
    /\ move_op.target_start = add_op.target_start
    /\ move_op.target_end = add_op.target_end
    /\ move_op.target_content = add_op.target_content

\* the moves of `after` pair deletes and adds of `before` one to one, each
\* pair more similar than the move threshold and its move as confident as the
\* pair is similar; the other deletes and adds are in `after` as they were
MovesPairUp(before, after) ==
    /\ \A m \in OfKind(after, "move") :
           \E d \in OfKind(before, "delete"), a \in OfKind(before, "add") :
               /\ MoveOf(after[m], before[d], before[a])
               /\ RatLess(<<9, 10>>,
                          _calculate_semantic_similarity(
                              Join(before[d].source_content),
                              Join(before[a].target_content)))
               /\ after[m].confidence =
                      _calculate_semantic_similarity(
                          Join(before[d].source_content),
                          Join(before[a].target_content))
    /\ \A d \in OfKind(before, "delete") :
           Cardinality({n \in 1..Len(after) :
                           \/ after[n] = before[d]
                           \/ /\ after[n].operation = "move"
                              /\ after[n].source_start = before[d].source_start
                              /\ after[n].source_end = before[d].source_end}) = 1
    /\ \A a \in OfKind(before, "add") :
           Cardinality({n \in 1..Len(after) :
                           \/ after[n] = before[a]
                           \/ /\ after[n].operation = "move"
                              /\ after[n].target_start = before[a].target_start
                              /\ after[n].target_end = before[a].target_end}) = 1
    /\ Len(after) + Cardinality(OfKind(after, "move")) = Len(before)

TaskEnds(t) ==
    /\ t \in DOMAIN background_tasks
    /\ background_tasks[t].pc # "done"
    /\ background_tasks'[t].pc = "done"

\* C27: no run of the background task that the analyze endpoint scheduled
\* (the endpoint has set the status to 'analyzing') ends with the status of
\* its document still 'analyzing': when the task returns the status is
\* 'indexed' or 'error'.
C27_TaskNeverEndsAnalyzing ==
    [][\A t \in 1..MaxEdits :
           TaskEnds(t) =>
               status'[background_tasks[t].document_id] \in {"indexed", "error"}]_vars

(* ---- the versions of a slug ---- *)
\* the documents of a slug in a table documents
OfSlug(table, slug) == {i \in DOMAIN table : table[i].slug = slug}

\* v is the highest version among the documents of the slug
HighestVersion(table, slug, v) ==
    /\ \E i \in OfSlug(table, slug) : table[i].version = v
    /\ \A i \in OfSlug(table, slug) : table[i].version <= v

\* the upload added exactly one document, of this slug, version and content
AddsOne(slug, version, content) ==
    /\ \E id \in DOMAIN documents' \ DOMAIN documents :
           /\ DOMAIN documents' = DOMAIN documents \cup {id}
           /\ documents'[id] = DocumentRow(slug, version, content)
    /\ \A i \in DOMAIN documents : documents'[i] = documents[i]

\* what an upload of the content under the title of slug s1 has to do
VersionedUpload(content) ==
    IF OfSlug(documents, "s1") = {}
    THEN AddsOne("s1", 1, content)
    ELSE \E v \in 1..(MaxEdits + 2) :
             /\ HighestVersion(documents, "s1", v)
             /\ IF \E i \in OfSlug(documents, "s1") :
                       documents[i].version = v /\ documents[i].content = content
                THEN documents' = documents
                ELSE AddsOne("s1", v + 1, content)

\* no two documents have the same slug and version
UniqueSlugVersion ==
    \A i, j \in DOMAIN documents :
        (documents[i].slug = documents[j].slug
            /\ documents[i].version = documents[j].version) => i = j

\* C28: create_document gives an upload under an existing slug the highest
\* existing version of the slug plus one, and version 1 under a new slug,
\* except that content with the checksum of the latest version creates
\* nothing; after any sequence of uploads and deletions no two documents
\* share a slug and a version.
C28_VersionsIncreaseAndStayUnique ==
    /\ []UniqueSlugVersion
    /\ [][\A content \in Contents : create_document(content) => VersionedUpload(content)]_vars

\* C28 witness: after a deletion, an upload has made version 3 of the slug
\* while version 2 is gone, or version 1 of the slug anew
C28_Witness ==
    /\ edits > 1
    /\ \/ /\ \E i \in DOMAIN documents : documents[i].version = 3
          /\ ~\E i \in DOMAIN documents : documents[i].version = 2
       \/ \E i \in DOMAIN documents :
              documents[i].version = 1 /\ documents[i].content # "x"

(* ---- requests compare_documents refuses ---- *)
\* one of the documents is missing, or their slugs differ
Refused(doc_id_a, doc_id_b) ==
    \/ doc_id_a \notin DOMAIN documents
    \/ doc_id_b \notin DOMAIN documents
    \/ documents[doc_id_a].slug # documents[doc_id_b].slug

\* C29: compare_documents for a missing document or for documents of
\* different slugs returns an error result, computes no dimension and leaves
\* the comparison cache as it is.
C29_RefusedRequestChangesNothing ==
    [][\A doc_id_a \in RequestIds, doc_id_b \in RequestIds :
           (Refused(doc_id_a, doc_id_b) /\ compare_documents(doc_id_a, doc_id_b))
               => /\ response' = ErrorResponse
                  /\ computations' = computations
                  /\ comparisons' = comparisons]_vars

\* C29 witness: a request was refused while the cache holds a record and no
\* call has computed anything
C29_Witness ==
    /\ calls > 0 /\ computations = 0
    /\ response = ErrorResponse
    /\ comparisons # <<>>

(* ---- termination of chunk_text ---- *)
\* the chunks emitted so far are numbered 0, 1, 2, ... in order
IndexesWithoutGaps ==
    \A n \in 1..Len(emitted) : emitted[n].chunk_index = n - 1

\* C30: chunk_text terminates for every text, every chunk_size >= 1 and
\* every overlap >= 0: each loop iteration moves the start position strictly
\* forward until it reaches the length of the text, the call returns, and
\* the chunks it emits are numbered 0, 1, 2, ... without gaps.
C30_ChunkTextTerminates ==
    /\ [][chunk_iteration => start_pos' > start_pos]_vars
    /\ [](chunking = "loop" => start_pos < Len(full_text))
    /\ []IndexesWithoutGaps
    /\ (chunking = "loop") ~> (chunking = "returned")

\* C30 witness: a call with an overlap at least the chunk size has returned
\* two chunks or more, with an iteration between two of them that emitted
\* nothing
C30_Witness ==
    /\ chunking = "returned"
    /\ overlap >= chunk_size
    /\ Len(emitted) >= 2
    /\ \E n \in 1..(Len(emitted) - 1) :
           emitted[n + 1].start > emitted[n].end

=============================================================================
